---- MODULE Spec2Model ----
(***************************************************************************)
(* Model of the agent orchestrator: the store (src/store.ts), the name     *)
(* generator (src/agent-name.ts) and the orchestration logic of            *)
(* src/components/App.tsx (handleSubmit, the output/exit callbacks and the *)
(* periodic status refresh).                                               *)
(*                                                                         *)
(* Output text (chunks, outputBuffer, lastOutput) is held run-length       *)
(* encoded: a text is a sequence of runs <<c, n>>, n > 0, adjacent runs    *)
(* having different characters, so 1500 'A' then 1000 'B' is               *)
(* << <<"A",1500>>, <<"B",1000>> >>.  Task prompts and agent ids are       *)
(* sequences of one-character strings.                                     *)
(***************************************************************************)
EXTENDS Integers, Sequences, FiniteSets, TLC

\* ------------------------------------------------------------------ bounds
\* events the environment starts, in all: lines submitted, processes spawned,
\* chunks written, process exits, firings of the refresh timer
MaxEvents == 6
\* lines submitted, accepted or ignored
MaxSubmits == 2
\* firings of the refresh timer
MaxTicks == 2
\* the calls made in a session of the name generator called directly
MaxNameCalls == 4
\* calls of removeAgent made during a session
MaxRemovals == 2

\* ------------------------------------------------------- program constants
MAX_OUTPUT_BUFFER_LENGTH == 2000
MAX_LAST_OUTPUT_LENGTH == 500
DETECT_WINDOW == 500
MAX_NAME_LENGTH == 20
WORDS_TO_EXTRACT == 3

Null == "null"            \* JS null, for a message
Undefined == "undefined"  \* JS undefined, a field the parsed JSON lacks
NullId == <<"null">>      \* JS null, for an agent id

\* ------------------------------------------------------------ text values
EmptyText == << >>

Rep(c, n) == IF n = 0 THEN EmptyText ELSE << <<c, n>> >>

RECURSIVE TextLen(_)
TextLen(s) == IF s = << >> THEN 0 ELSE s[1][2] + TextLen(Tail(s))

\* s + t : string concatenation
Concat(s, t) ==
    IF s = << >> THEN t
    ELSE IF t = << >> THEN s
    ELSE IF s[Len(s)][1] = t[1][1]
         THEN SubSeq(s, 1, Len(s) - 1)
                \o << <<t[1][1], s[Len(s)][2] + t[1][2]>> >>
                \o Tail(t)
         ELSE s \o t

\* the last k characters of s, all of s when it has fewer
RECURSIVE LastChars(_, _)
LastChars(s, k) ==
    IF k <= 0 \/ s = << >> THEN << >>
    ELSE LET last == s[Len(s)]
         IN  IF last[2] >= k
             THEN << <<last[1], k>> >>
             ELSE Concat(LastChars(SubSeq(s, 1, Len(s) - 1), k - last[2]),
                         <<last>>)

\* the first k characters of s, all of s when it has fewer
RECURSIVE FirstChars(_, _)
FirstChars(s, k) ==
    IF k <= 0 \/ s = << >> THEN << >>
    ELSE IF s[1][2] >= k
         THEN << <<s[1][1], k>> >>
         ELSE Concat(<<s[1]>>, FirstChars(Tail(s), k - s[1][2]))

\* String.prototype.slice(-n) for n > 0
SliceFromEnd(s, n) == LastChars(s, n)

\* ------------------------------------------------ name generator (agent-name.ts)
UpperChars == <<"A","B","C","D","E","F","G","H","I","J","K","L","M",
                "N","O","P","Q","R","S","T","U","V","W","X","Y","Z">>
LowerChars == <<"a","b","c","d","e","f","g","h","i","j","k","l","m",
                "n","o","p","q","r","s","t","u","v","w","x","y","z">>
DigitChars == {"0","1","2","3","4","5","6","7","8","9"}
WhitespaceChars == {" ", "\t", "\n", "\r"}

STOP_WORDS == {
    <<"a">>, <<"a","n">>, <<"t","h","e">>, <<"i","s">>, <<"a","r","e">>,
    <<"w","a","s">>, <<"w","e","r","e">>, <<"b","e">>, <<"b","e","e","n">>,
    <<"b","e","i","n","g">>, <<"h","a","v","e">>, <<"h","a","s">>,
    <<"h","a","d">>, <<"d","o">>, <<"d","o","e","s">>, <<"d","i","d">>,
    <<"w","i","l","l">>, <<"w","o","u","l","d">>, <<"c","o","u","l","d">>,
    <<"s","h","o","u","l","d">>, <<"m","a","y">>, <<"m","i","g","h","t">>,
    <<"m","u","s","t">>, <<"s","h","a","l","l">>, <<"c","a","n">>,
    <<"n","e","e","d">>, <<"d","a","r","e">>, <<"t","o">>, <<"o","f">>,
    <<"i","n">>, <<"f","o","r">>, <<"o","n">>, <<"w","i","t","h">>,
    <<"a","t">>, <<"b","y">>, <<"f","r","o","m">>, <<"a","s">>,
    <<"i","n","t","o">>, <<"t","h","r","o","u","g","h">>,
    <<"d","u","r","i","n","g">>, <<"b","e","f","o","r","e">>,
    <<"a","f","t","e","r">>, <<"a","b","o","v","e">>,
    <<"b","e","l","o","w">>, <<"b","e","t","w","e","e","n">>,
    <<"u","n","d","e","r">>, <<"a","g","a","i","n">>,
    <<"f","u","r","t","h","e","r">>, <<"t","h","e","n">>,
    <<"o","n","c","e">>, <<"h","e","r","e">>, <<"t","h","e","r","e">>,
    <<"w","h","e","n">>, <<"w","h","e","r","e">>, <<"w","h","y">>,
    <<"h","o","w">>, <<"a","l","l">>, <<"e","a","c","h">>, <<"f","e","w">>,
    <<"m","o","r","e">>, <<"m","o","s","t">>, <<"o","t","h","e","r">>,
    <<"s","o","m","e">>, <<"s","u","c","h">>, <<"n","o">>, <<"n","o","r">>,
    <<"n","o","t">>, <<"o","n","l","y">>, <<"o","w","n">>,
    <<"s","a","m","e">>, <<"s","o">>, <<"t","h","a","n">>, <<"t","o","o">>,
    <<"v","e","r","y">>, <<"j","u","s","t">>, <<"a","n","d">>,
    <<"b","u","t">>, <<"i","f">>, <<"o","r">>,
    <<"b","e","c","a","u","s","e">>, <<"u","n","t","i","l">>,
    <<"w","h","i","l","e">>, <<"a","l","t","h","o","u","g","h">>,
    <<"t","h","i","s">>, <<"t","h","a","t">>, <<"t","h","e","s","e">>,
    <<"t","h","o","s","e">>, <<"i","t">>, <<"i","t","s">>, <<"m","y">>,
    <<"y","o","u","r">>, <<"o","u","r">>, <<"t","h","e","i","r">>,
    <<"h","i","s">>, <<"h","e","r">>, <<"m","e">>, <<"y","o","u">>,
    <<"u","s">>, <<"t","h","e","m">>, <<"h","i","m">>,
    <<"p","l","e","a","s","e">>, <<"h","e","y">>, <<"h","i">>,
    <<"h","e","l","l","o">>, <<"t","h","a","n","k","s">>, <<"o","k">>,
    <<"o","k","a","y">>, <<"w","a","n","t">>, <<"l","i","k","e">>,
    <<"g","e","t">>, <<"m","a","k","e">>, <<"p","u","t">>, <<"g","o">>,
    <<"g","o","i","n","g">> }

IsWhitespace(c) == c \in WhitespaceChars

\* String.prototype.toLowerCase, one character
ToLowerChar(c) ==
    IF \E i \in 1..26 : UpperChars[i] = c
    THEN LowerChars[CHOOSE i \in 1..26 : UpperChars[i] = c]
    ELSE c

\* String.prototype.trim
RECURSIVE TrimLeft(_)
TrimLeft(s) ==
    IF s # << >> /\ IsWhitespace(s[1]) THEN TrimLeft(Tail(s)) ELSE s

RECURSIVE TrimRight(_)
TrimRight(s) ==
    IF s # << >> /\ IsWhitespace(s[Len(s)])
    THEN TrimRight(SubSeq(s, 1, Len(s) - 1))
    ELSE s

Trim(s) == TrimRight(TrimLeft(s))

\* .replace(/[^a-z0-9\s-]/g, ' ') after .toLowerCase()
NormalizeChar(c) ==
    LET l == ToLowerChar(c)
    IN  IF \/ \E i \in 1..26 : LowerChars[i] = l
           \/ l \in DigitChars
           \/ IsWhitespace(l)
           \/ l = "-"
        THEN l
        ELSE " "

Normalize(prompt) == Trim([i \in 1..Len(prompt) |-> NormalizeChar(prompt[i])])

\* the index of the first non-whitespace character of s at or after i
RECURSIVE SkipWhitespace(_, _)
SkipWhitespace(s, i) ==
    IF i <= Len(s) /\ IsWhitespace(s[i]) THEN SkipWhitespace(s, i + 1) ELSE i

\* s.split(/\s+/), scanning from index i with the token cur in progress
RECURSIVE SplitFrom(_, _, _)
SplitFrom(s, i, cur) ==
    IF i > Len(s) THEN <<cur>>
    ELSE IF IsWhitespace(s[i])
         THEN <<cur>> \o SplitFrom(s, SkipWhitespace(s, i), << >>)
         ELSE SplitFrom(s, i + 1, Append(cur, s[i]))

SplitWhitespace(s) == SplitFrom(s, 1, << >>)

\* variant: the filter tests the stop words only
RECURSIVE FilterWordsKeepsShort(_)
FilterWordsKeepsShort(ws) ==
    IF ws = << >> THEN << >>
    ELSE IF ws[1] \notin STOP_WORDS
         THEN <<ws[1]>> \o FilterWordsKeepsShort(Tail(ws))
         ELSE FilterWordsKeepsShort(Tail(ws))

\* Array.prototype.filter, keeping the order
RECURSIVE FilterWords(_)
FilterWords(ws) ==
    IF ws = << >> THEN << >>
    ELSE IF Len(ws[1]) > 1 /\ ws[1] \notin STOP_WORDS
         THEN <<ws[1]>> \o FilterWords(Tail(ws))
         ELSE FilterWords(Tail(ws))

extractMeaningfulWords(prompt) == FilterWords(SplitWhitespace(Normalize(prompt)))

\* Array.prototype.join('-')
RECURSIVE JoinHyphen(_)
JoinHyphen(ws) ==
    IF ws = << >> THEN << >>
    ELSE IF Len(ws) = 1 THEN ws[1]
         ELSE ws[1] \o <<"-">> \o JoinHyphen(Tail(ws))

\* String.prototype.lastIndexOf('-'), 0-based, -1 when there is none
LastIndexOfHyphen(s) ==
    IF \E i \in 1..Len(s) : s[i] = "-"
    THEN (CHOOSE i \in 1..Len(s) :
             s[i] = "-" /\ \A j \in (i + 1)..Len(s) : s[j] # "-") - 1
    ELSE -1

\* words.slice(0, WORDS_TO_EXTRACT), ['agent'] when no word is left
NameWords(words) ==
    IF Len(words) = 0 THEN << <<"a","g","e","n","t">> >>
    ELSE IF Len(words) < WORDS_TO_EXTRACT THEN words
    ELSE SubSeq(words, 1, WORDS_TO_EXTRACT)

\* the clean-up of a name cut in the middle of a word
CutAtHyphen(cut, lastHyphen) ==
    IF lastHyphen > 0 /\ Len(cut) - lastHyphen < 3
    THEN SubSeq(cut, 1, lastHyphen)
    ELSE cut

\* the truncation of a base name longer than MAX_NAME_LENGTH
Truncate(joined) ==
    IF Len(joined) > MAX_NAME_LENGTH
    THEN CutAtHyphen(SubSeq(joined, 1, MAX_NAME_LENGTH),
                     LastIndexOfHyphen(SubSeq(joined, 1, MAX_NAME_LENGTH)))
    ELSE joined

\* generateAgentName up to the uniqueness check: the base name
BaseName(taskPrompt) ==
    Truncate(JoinHyphen(NameWords(extractMeaningfulWords(taskPrompt))))

\* raw lines the user can submit
Lines == { <<" ">>, <<"g","o">> }

PromptFixBug == <<"F","i","x"," ","b","u","g">>
PromptFixTheBug == <<"f","i","x"," ","t","h","e"," ","b","u","g","!">>

\* the task lists the Input Classifier can return
TaskLists == { << >>, <<PromptFixBug>>, <<PromptFixBug, PromptFixTheBug>> }

\* BaseName on the prompts the model names agents from, computed once
BaseNameMemo ==
    [ p \in Lines \cup UNION { { tasks[i] : i \in 1..Len(tasks) } : tasks \in TaskLists }
        |-> BaseName(p) ]

\* the values generateSuffix() can return: Math.random().toString(36).slice(2, 5)
Suffixes == { <<"x","7","k">>, <<"i">> }

\* generateAgentName: the name returned, given the set of used names and the
\* suffix generateSuffix() would return
UniqueName(used, baseName, suffix) ==
    IF baseName \in used THEN baseName \o <<"-">> \o suffix ELSE baseName

FinalName(used, taskPrompt, suffix) ==
    UniqueName(used, BaseNameMemo[taskPrompt], suffix)

\* the task prompts generateAgentName is called on, taken alone
TaskPrompts ==
    {
      \* "Create README file"
      <<"C","r","e","a","t","e"," ","R","E","A","D","M","E"," ","f","i",
      "l","e">>,
      \* "Fix auth bug"
      <<"F","i","x"," ","a","u","t","h"," ","b","u","g">>,
      \* "Update the user profile settings page"
      <<"U","p","d","a","t","e"," ","t","h","e"," ","u","s","e","r"," ",
      "p","r","o","f","i","l","e"," ","s","e","t","t","i","n","g","s"," ",
      "p","a","g","e">>,
      \* "Please just make the button work"
      <<"P","l","e","a","s","e"," ","j","u","s","t"," ","m","a","k","e",
      " ","t","h","e"," ","b","u","t","t","o","n"," ","w","o","r","k">>,
      \* "Hey can you fix this bug"
      <<"H","e","y"," ","c","a","n"," ","y","o","u"," ","f","i","x"," ",
      "t","h","i","s"," ","b","u","g">>,
      \* "Create   new    file"
      <<"C","r","e","a","t","e"," "," "," ","n","e","w"," "," "," "," ",
      "f","i","l","e">>,
      \* "  Create new file  "
      <<" "," ","C","r","e","a","t","e"," ","n","e","w"," ","f","i","l",
      "e"," "," ">>,
      \* ""
      <<>>,
      \* "the a an to for"
      <<"t","h","e"," ","a"," ","a","n"," ","t","o"," ","f","o","r">>,
      \* "test"
      <<"t","e","s","t">>,
      \* "!@#$%^&*()"
      <<"!","@","#","$","%","^","&","*","(",")">>,
      \* "Fix bug #123 in auth"
      <<"F","i","x"," ","b","u","g"," ","#","1","2","3"," ","i","n"," ",
      "a","u","t","h">>,
      \* "Plan B for x release"
      <<"P","l","a","n"," ","B"," ","f","o","r"," ","x"," ","r","e","l",
      "e","a","s","e">>,
      \* "Don't stop"
      <<"D","o","n","'","t"," ","s","t","o","p">>,
      \* "Fix\tthe\nbug"
      <<"F","i","x","\t","t","h","e","\n","b","u","g">>,
      \* "Fix well-known bug"
      <<"F","i","x"," ","w","e","l","l","-","k","n","o","w","n"," ","b",
      "u","g">>,
      \* "Refactor database connection"
      <<"R","e","f","a","c","t","o","r"," ","d","a","t","a","b","a","s",
      "e"," ","c","o","n","n","e","c","t","i","o","n">>,
      \* "Refactor component layer"
      <<"R","e","f","a","c","t","o","r"," ","c","o","m","p","o","n","e",
      "n","t"," ","l","a","y","e","r">>,
      \* "Implement component tests"
      <<"I","m","p","l","e","m","e","n","t"," ","c","o","m","p","o","n",
      "e","n","t"," ","t","e","s","t","s">>,
      \* "Refactor handler logic"
      <<"R","e","f","a","c","t","o","r"," ","h","a","n","d","l","e","r",
      " ","l","o","g","i","c">>,
      \* "Implement authentication middleware"
      <<"I","m","p","l","e","m","e","n","t"," ","a","u","t","h","e","n",
      "t","i","c","a","t","i","o","n"," ","m","i","d","d","l","e","w","a",
      "r","e">>,
      \* "Supercalifragilisticexpialidocious"
      <<"S","u","p","e","r","c","a","l","i","f","r","a","g","i","l","i",
      "s","t","i","c","e","x","p","i","a","l","i","d","o","c","i","o","u",
      "s">> }

\* the sets of used names a call taken alone starts from
UsedNameSets == { {}, { <<"a","g","e","n","t">>, <<"f","i","x","-","b","u","g">> } }

\* generateAgentName(taskPrompt) with these used names and this suffix: the
\* words extracted, the joined name, the base name and the name returned
generateAgentName(used, taskPrompt, suffix) ==
    [ words |-> extractMeaningfulWords(taskPrompt),
      joined |-> JoinHyphen(NameWords(extractMeaningfulWords(taskPrompt))),
      baseName |-> BaseName(taskPrompt),
      name |-> UniqueName(used, BaseName(taskPrompt), suffix) ]

\* ------------------------------------------------------------ model inputs
\* the clarification messages the Input Classifier can return
Clarifications == { "Which file?" }

\* the messages of the errors cleanInput or spawnAgent can throw
ErrorMessages == { "spawn failed" }

\* the chunks a process can write
Chunks == { Rep("A", 1800), Rep("B", 300) }

\* the exit codes of a process (claude-code.ts: code ?? 0)
ExitCodes == { 0, 1 }

\* what the remote model can put in the "status" and "summary" fields
ParsedStatus == { "working", "needs_input", "done" }
ParsedSummary == { "Working on task" }

\* JSON objects the remote model can answer with that lack the fields asked
\* for or carry another status: {} and {"status": "paused", "summary": ...};
\* detectStatus reads parsed.status and parsed.summary as they are
UnexpectedObjects ==
    { [status |-> Undefined, summary |-> Undefined],
      [status |-> "paused", summary |-> "Working on task"] }

\* ---------------------------------------------------------------- state
VARIABLES
    agents,          \* store.agents: agent id -> Agent
    order,           \* the insertion order of store.agents (a Map iterates in it)
    focusedAgentId,  \* store.focusedAgentId
    usedNames,       \* agent-name.ts usedNames
    isProcessing,    \* App state
    error,           \* App state
    clarification,   \* App state
    uiAgents,        \* App state `agents`: the statuses last published by syncAgents
    focusedId,       \* App state
    handlers,        \* the accepted calls of handleSubmit so far, each with its position
    ignored,         \* the number of calls of handleSubmit that returned at line 41
    procs,           \* the handles spawnAgent returned, each with its callbacks' agentId
    ticks,           \* the runs of the setInterval callback so far
    delivered,       \* per agent id: the chunks appended since addAgent created it
    storeCalls,      \* the store operations called directly (by a test, say):
                     \* how many, and the last one with the id it was given
    lastCleaned,     \* the result cleanInput resolved to in the step just taken:
                     \* the handler h that awaited it, its tasks, and the task at
                     \* which spawnAgent threw (0: none); NoCleaned after any
                     \* other step
    unmounted,       \* the App component is unmounted: exit() was called or the
                     \* UI was torn down, and the effect cleanup (line 147) ran
    fnCall,          \* one call of a classifier or of the name generator, taken
                     \* alone: its input, the remote response, and its outcome
    nameLog,         \* the calls of generateAgentName and resetUsedNames, and the
                     \* calls of the store between them, made directly (by a
                     \* test, say), in order
    startup          \* index.tsx: whether the credential variable is set, which
                     \* revision of index.tsx runs, and how far it has run

vars == <<agents, order, focusedAgentId, usedNames, isProcessing, error,
          clarification, uiAgents, focusedId, handlers, ignored, procs, ticks,
          delivered, storeCalls, lastCleaned, unmounted, fnCall, nameLog,
          startup>>

storeVars == <<agents, order, focusedAgentId, delivered>>
appVars == <<isProcessing, error, clarification, uiAgents, focusedId, storeCalls>>

NoCleaned == [h |-> 0, tasks |-> << >>, failAt |-> 0]

\* no call is taken alone
NoCall ==
    [fn |-> "none", input |-> << >>, response |-> << >>, settled |-> TRUE,
     threw |-> FALSE, sent |-> << >>, value |-> << >>]

\* index.tsx has run to its end with the credential set: render(<App />)
Rendered == [pc |-> "rendered", credential |-> TRUE, checks |-> TRUE, exitCode |-> 0]

\* ------------------------------------------------------------ store.ts
\* createEmptyStore / the module's initial state
Init ==
    /\ agents = << >>
    /\ order = << >>
    /\ focusedAgentId = NullId
    /\ usedNames = {}
    /\ isProcessing = FALSE
    /\ error = Null
    /\ clarification = Null
    /\ uiAgents = << >>
    /\ focusedId = NullId
    /\ handlers = << >>
    /\ ignored = 0
    /\ procs = << >>
    /\ ticks = << >>
    /\ delivered = << >>
    /\ storeCalls = [n |-> 0, op |-> "none", id |-> NullId, found |-> FALSE]
    /\ lastCleaned = NoCleaned
    /\ unmounted = FALSE
    /\ fnCall = NoCall
    /\ nameLog = << >>
    /\ startup = Rendered

\* variant: the agent starts in state working
NewAgentWorking(config, handle) ==
    [ config |-> config,
      handle |-> handle,
      status |-> [ id |-> config.id, state |-> "working",
                   summary |-> "", lastOutput |-> EmptyText ],
      outputBuffer |-> EmptyText ]

\* the Agent addAgent builds
NewAgent(config, handle) ==
    [ config |-> config,
      handle |-> handle,
      status |-> [ id |-> config.id, state |-> "starting",
                   summary |-> "", lastOutput |-> EmptyText ],
      outputBuffer |-> EmptyText ]

\* variant: an id already present keeps its entry
addAgentKeepsExisting(ag, config, handle) ==
    [ k \in DOMAIN ag \cup {config.id} |->
        IF k \in DOMAIN ag THEN ag[k] ELSE NewAgent(config, handle) ]

\* store.agents.set(config.id, agent)
addAgent(ag, config, handle) ==
    [ k \in DOMAIN ag \cup {config.id} |->
        IF k = config.id THEN NewAgent(config, handle) ELSE ag[k] ]

\* Map.set keeps the position of a key already present
InsertionOrder(ord, id) ==
    IF \E i \in 1..Len(ord) : ord[i] = id THEN ord ELSE Append(ord, id)

\* { ...old, ...status }: every key of status overwrites
SpreadMerge(old, status) ==
    [ f \in DOMAIN old \cup DOMAIN status |->
        IF f \in DOMAIN status THEN status[f] ELSE old[f] ]

\* variant: an unknown id gets an entry of its own
updateAgentStatusUpsert(ag, id, status) ==
    [ k \in DOMAIN ag \cup {id} |->
        IF k # id THEN ag[k]
        ELSE IF id \in DOMAIN ag
             THEN [ag[id] EXCEPT !.status = SpreadMerge(@, status)]
             ELSE [ config |-> [id |-> id, task |-> << >>],
                    handle |-> 0,
                    status |-> SpreadMerge([id |-> id, state |-> "starting",
                                            summary |-> "", lastOutput |-> EmptyText],
                                           status),
                    outputBuffer |-> EmptyText ] ]

updateAgentStatus(ag, id, status) ==
    IF id \in DOMAIN ag
    THEN [ag EXCEPT ![id].status = SpreadMerge(ag[id].status, status)]
    ELSE ag

\* variant: the buffer is never cut
AppendedBufferUncut(buffer, chunk) == Concat(buffer, chunk)

\* variant: the buffer is cut to its first characters
AppendedBufferKeepsFront(buffer, chunk) ==
    FirstChars(Concat(buffer, chunk), MAX_OUTPUT_BUFFER_LENGTH)

\* outputBuffer += chunk, cut to its last MAX_OUTPUT_BUFFER_LENGTH characters
AppendedBuffer(buffer, chunk) ==
    LET joined == Concat(buffer, chunk)
    IN  IF TextLen(joined) > MAX_OUTPUT_BUFFER_LENGTH
        THEN SliceFromEnd(joined, MAX_OUTPUT_BUFFER_LENGTH)
        ELSE joined

\* variant: lastOutput is not refreshed
appendAgentOutputBufferOnly(ag, id, chunk) ==
    IF id \in DOMAIN ag
    THEN [ag EXCEPT ![id].outputBuffer = AppendedBuffer(@, chunk)]
    ELSE ag

\* variant: an append also marks the agent as working
appendAgentOutputSetsWorking(ag, id, chunk) ==
    IF id \in DOMAIN ag
    THEN [ag EXCEPT ![id].outputBuffer = AppendedBuffer(@, chunk),
                    ![id].status.lastOutput =
                        SliceFromEnd(AppendedBuffer(ag[id].outputBuffer, chunk),
                                     MAX_LAST_OUTPUT_LENGTH),
                    ![id].status.state = "working"]
    ELSE ag

appendAgentOutput(ag, id, chunk) ==
    IF id \in DOMAIN ag
    THEN LET buffer == AppendedBuffer(ag[id].outputBuffer, chunk)
         IN  [ag EXCEPT ![id].outputBuffer = buffer,
                        ![id].status.lastOutput =
                            SliceFromEnd(buffer, MAX_LAST_OUTPUT_LENGTH)]
    ELSE ag

\* variant: the entry is kept
removeAgentKeepsEntry(ag, id) == ag

\* store.agents.delete(id) of removeAgent
removeAgent(ag, id) == [ k \in DOMAIN ag \ {id} |-> ag[k] ]

\* agent.handle.kill() of removeAgent: the handles ps after the call
KilledBy(ps, ag, id) ==
    IF id \in DOMAIN ag
    THEN [ps EXCEPT ![ag[id].handle].kills = @ + 1]
    ELSE ps

\* Map.delete takes the key out of the iteration order
DeletionOrder(ord, id) == SelectSeq(ord, LAMBDA k : k # id)

\* the chunks appended to an agent, in delivery order (history)
RecordChunk(dl, ag, id, chunk) ==
    IF id \in DOMAIN ag THEN [dl EXCEPT ![id] = Append(@, chunk)] ELSE dl

RecordNewAgent(dl, id) ==
    [ k \in DOMAIN dl \cup {id} |-> IF k = id THEN << >> ELSE dl[k] ]

RecordRemoved(dl, id) == [ k \in DOMAIN dl \ {id} |-> dl[k] ]

\* ------------------------------------------------------ status-detector.ts
\* variant: lastOutput is the whole text
DetectionResultWholeText(recentOutput, status, summary) ==
    [ state |-> status, summary |-> summary, lastOutput |-> recentOutput ]

\* what detectStatus returns when the remote model's JSON parses
DetectionResult(recentOutput, status, summary) ==
    [ state |-> status, summary |-> summary,
      lastOutput |-> SliceFromEnd(recentOutput, DETECT_WINDOW) ]

\* what detectStatus returns when the remote call or the parse fails
DetectionFallback(recentOutput) ==
    [ state |-> "working", summary |-> "Processing...",
      lastOutput |-> SliceFromEnd(recentOutput, DETECT_WINDOW) ]

\* ------------------------------------------------------ components/App.tsx
\* syncAgents: Array.from(store.agents.values()).map(a => a.status)
Snapshot(ag, ord) == [ i \in 1..Len(ord) |-> ag[ord[i]].status ]

\* the number of chunks the processes have written so far
RECURSIVE TotalWritten(_)
TotalWritten(ps) ==
    IF ps = << >> THEN 0 ELSE ps[1].written + TotalWritten(Tail(ps))

\* the number of processes that have exited so far
RECURSIVE TotalExited(_)
TotalExited(ps) ==
    IF ps = << >> THEN 0
    ELSE (IF ps[1].exited THEN 1 ELSE 0) + TotalExited(Tail(ps))

\* the events the environment has started so far
Events ==
    Len(handlers) + ignored + Len(procs) + TotalWritten(procs)
        + TotalExited(procs) + Len(ticks)

\* variant: the guard without the isProcessing test
SubmitIgnoredBlankOnly(value, processing) == Trim(value) = << >>

\* handleSubmit line 39: the submission is ignored
SubmitIgnored(value, processing) == Trim(value) = << >> \/ processing

\* handleSubmit up to `await cleanInput(value)`
HandleSubmit(value) ==
    /\ ~unmounted
    /\ Events < MaxEvents
    /\ Len(handlers) + ignored < MaxSubmits
    /\ IF SubmitIgnored(value, isProcessing)
       THEN /\ ignored' = ignored + 1
            /\ UNCHANGED <<handlers, isProcessing, error, clarification>>
       ELSE /\ handlers' = Append(handlers, [pc |-> "cleaning", value |-> value])
            /\ UNCHANGED ignored
            /\ isProcessing' = TRUE
            /\ error' = Null
            /\ clarification' = Null
    /\ UNCHANGED <<storeVars, usedNames, uiAgents, focusedId, procs, ticks,
                   storeCalls>>
    /\ lastCleaned' = NoCleaned
    /\ UNCHANGED <<unmounted, fnCall, nameLog, startup>>

\* usedNames.add(finalName) at the end of generateAgentName
Named(st, agentId) == [st EXCEPT !.usedNames = @ \cup {agentId}]

\* one pass of the loop body after spawnAgent returned a handle: addAgent
Spawned(st, agentId, task) ==
    [st EXCEPT
       !.usedNames = @ \cup {agentId},
       !.agents = addAgent(@, [id |-> agentId, task |-> task], Len(st.procs) + 1),
       !.order = InsertionOrder(@, agentId),
       !.delivered = RecordNewAgent(@, agentId),
       !.procs = Append(@, [id |-> agentId, exited |-> FALSE, code |-> 0, written |-> 0,
                              kills |-> 0])]

\* variant: the loop goes on with the next task after a spawnAgent that threw
RECURSIVE SpawnLoopSkipsFailed(_, _, _, _, _)
SpawnLoopSkipsFailed(tasks, k, st, suffix, failAt) ==
    IF k > Len(tasks) THEN [st |-> st, threw |-> failAt # 0]
    ELSE IF failAt = k
         THEN SpawnLoopSkipsFailed(tasks, k + 1,
                 Named(st, FinalName(st.usedNames, tasks[k], suffix[k])),
                 suffix, failAt)
         ELSE SpawnLoopSkipsFailed(tasks, k + 1,
                 Spawned(st, FinalName(st.usedNames, tasks[k], suffix[k]), tasks[k]),
                 suffix, failAt)

\* the for loop of handleSubmit from task k on: names, spawns and registers one
\* agent per task; spawnAgent throws at task failAt (0: it never throws).
\* st holds the store, the used names and the handles; the result adds `threw`.
RECURSIVE SpawnLoop(_, _, _, _, _)
SpawnLoop(tasks, k, st, suffix, failAt) ==
    IF k > Len(tasks) THEN [st |-> st, threw |-> FALSE]
    ELSE IF failAt = k
         THEN [st |-> Named(st, FinalName(st.usedNames, tasks[k], suffix[k])),
               threw |-> TRUE]
         ELSE SpawnLoop(tasks, k + 1,
                 Spawned(st, FinalName(st.usedNames, tasks[k], suffix[k]), tasks[k]),
                 suffix, failAt)

\* variant: no finally: the early return after a clarification leaves the flag
FinallySkippedOnReturn(path) == path = "clarified"

\* the finally block of handleSubmit: the value of isProcessing it leaves
FinallyIsProcessing(path) == FALSE

\* `await cleanInput(value)` throws: catch, finally
CleanInputThrows(h) ==
    /\ h \in 1..Len(handlers)
    /\ handlers[h].pc = "cleaning"
    /\ \E msg \in ErrorMessages : error' = msg
    /\ isProcessing' = FinallyIsProcessing("failed")
    /\ handlers' = [handlers EXCEPT ![h].pc = "failed"]
    /\ UNCHANGED <<storeVars, usedNames, clarification, uiAgents, focusedId,
                   ignored, procs, ticks, storeCalls>>
    /\ lastCleaned' = NoCleaned
    /\ UNCHANGED <<unmounted, fnCall, nameLog, startup>>

\* the store, the names and the handles the spawn loop has left
SpawnedAll(r) ==
    /\ Events + Len(r.st.procs) - Len(procs) <= MaxEvents
    /\ agents' = r.st.agents
    /\ order' = r.st.order
    /\ usedNames' = r.st.usedNames
    /\ procs' = r.st.procs
    /\ delivered' = r.st.delivered

\* the results cleanInput can resolve to for the line value (the second set of
\* tasks: the fallback of input-cleaner.ts when the remote call fails)
CleanedInputs(value) ==
    [ tasks : TaskLists \cup {<<value>>},
      clarificationNeeded : Clarifications \cup {Undefined, ""} ]

\* `if (cleaned.clarificationNeeded)`: a string that is not empty
HasClarification(cleaned) == cleaned.clarificationNeeded \notin {Undefined, ""}

\* variant: the clarification is shown and the tasks are spawned all the same
ClarificationReturnThenSpawns(h, cleaned) ==
    /\ clarification' = cleaned.clarificationNeeded
    /\ isProcessing' = FinallyIsProcessing("clarified")
    /\ handlers' = [handlers EXCEPT ![h].pc = "clarified"]
    /\ lastCleaned' = [h |-> h, tasks |-> cleaned.tasks, failAt |-> 0]
    /\ UNCHANGED <<unmounted, fnCall, nameLog, startup>>
    /\ \E suffix \in [1..Len(cleaned.tasks) -> Suffixes] :
         SpawnedAll(SpawnLoop(cleaned.tasks, 1,
                        [agents |-> agents, order |-> order,
                         usedNames |-> usedNames, procs |-> procs,
                         delivered |-> delivered],
                        suffix, 0))
    /\ UNCHANGED <<focusedAgentId, error, uiAgents, focusedId, ignored, ticks,
                   storeCalls>>

\* lines 52-58: setClarification, return, finally
ClarificationReturn(h, cleaned) ==
    /\ clarification' = cleaned.clarificationNeeded
    /\ isProcessing' = FinallyIsProcessing("clarified")
    /\ handlers' = [handlers EXCEPT ![h].pc = "clarified"]
    /\ lastCleaned' = [h |-> h, tasks |-> cleaned.tasks, failAt |-> 0]
    /\ UNCHANGED <<unmounted, fnCall, nameLog, startup>>
    /\ UNCHANGED <<storeVars, usedNames, error, uiAgents, focusedId, ignored,
                   procs, ticks, storeCalls>>

\* `await cleanInput(value)` returns a result with clarificationNeeded
CleanInputClarifies(h) ==
    /\ h \in 1..Len(handlers)
    /\ handlers[h].pc = "cleaning"
    /\ \E cleaned \in CleanedInputs(handlers[h].value) :
         /\ HasClarification(cleaned)
         /\ ClarificationReturn(h, cleaned)

\* handleSubmit once the spawn loop over tasks has ended with result r:
\* syncAgents when no spawnAgent threw, the catch block when one did (at task
\* failAt), then finally
AfterSpawnLoop(h, msg, tasks, failAt, r) ==
    /\ SpawnedAll(r)
    /\ UNCHANGED <<unmounted, fnCall, nameLog, startup>>
    /\ IF r.threw
       THEN /\ error' = msg
            /\ handlers' = [handlers EXCEPT ![h].pc = "failed"]
            /\ lastCleaned' = [h |-> h, tasks |-> tasks, failAt |-> failAt]
            /\ isProcessing' = FinallyIsProcessing("failed")
            /\ UNCHANGED <<uiAgents, focusedId>>
       ELSE /\ uiAgents' = Snapshot(r.st.agents, r.st.order)
            /\ focusedId' = focusedAgentId
            /\ handlers' = [handlers EXCEPT ![h].pc = "spawned"]
            /\ lastCleaned' = [h |-> h, tasks |-> tasks, failAt |-> 0]
            /\ isProcessing' = FinallyIsProcessing("spawned")
            /\ UNCHANGED error

\* `await cleanInput(value)` returns tasks and no clarification: the spawn loop,
\* syncAgents, finally
CleanInputReturnsTasks(h) ==
    /\ h \in 1..Len(handlers)
    /\ handlers[h].pc = "cleaning"
    /\ \E cleaned \in CleanedInputs(handlers[h].value) :
       \E suffix \in [1..Len(cleaned.tasks) -> Suffixes] :
       \E failAt \in 0..Len(cleaned.tasks) :
       \E msg \in ErrorMessages :
         /\ ~HasClarification(cleaned)
         /\ AfterSpawnLoop(h, msg, cleaned.tasks, failAt,
                SpawnLoop(cleaned.tasks, 1,
                    [agents |-> agents, order |-> order, usedNames |-> usedNames,
                     procs |-> procs, delivered |-> delivered],
                    suffix, failAt))
    /\ UNCHANGED <<focusedAgentId, clarification, ignored, ticks, storeCalls>>

\* handle.onOutput callback: a process writes a chunk
ProcessOutput(p, chunk) ==
    /\ p \in 1..Len(procs)
    /\ Events < MaxEvents
    /\ procs' = [procs EXCEPT ![p].written = @ + 1]
    /\ agents' = appendAgentOutput(agents, procs[p].id, chunk)
    /\ delivered' = RecordChunk(delivered, agents, procs[p].id, chunk)
    /\ UNCHANGED <<order, focusedAgentId, usedNames, appVars, handlers, ignored,
                   ticks>>
    /\ lastCleaned' = NoCleaned
    /\ UNCHANGED <<unmounted, fnCall, nameLog, startup>>

\* variant: a nonzero exit code gives state error
ExitStateByCode(code) == IF code = 0 THEN "done" ELSE "error"

\* the state the onExit callback sets: it does not read the exit code
ExitState(code) == "done"

\* handle.onExit callback: a process exits with some exit code
ProcessExit(p) ==
    /\ p \in 1..Len(procs)
    /\ ~procs[p].exited
    /\ Events < MaxEvents
    /\ \E code \in ExitCodes :
         /\ procs' = [procs EXCEPT ![p].exited = TRUE, ![p].code = code]
         /\ agents' = updateAgentStatus(agents, procs[p].id,
                                        [state |-> ExitState(code)])
    /\ uiAgents' = Snapshot(agents', order)
    /\ focusedId' = focusedAgentId
    /\ UNCHANGED <<order, focusedAgentId, usedNames, isProcessing, error,
                   clarification, handlers, ignored, ticks, delivered, storeCalls>>
    /\ lastCleaned' = NoCleaned
    /\ UNCHANGED <<unmounted, fnCall, nameLog, startup>>

\* variant: the test without the empty-buffer check
EligibleAnyBuffer(agent) == agent.status.state \in {"working", "starting"}

\* the periodic refresh's test of one agent (lines 129 and 132)
Eligible(agent) ==
    /\ agent.status.state \in {"working", "starting"}
    /\ TextLen(agent.outputBuffer) # 0

\* the first agent at or after position from, in Map order, that the refresh
\* passes to detectStatus; 0 when there is none
NextEligible(ag, ord, from) ==
    IF \E i \in from..Len(ord) : Eligible(ag[ord[i]])
    THEN CHOOSE i \in from..Len(ord) :
            /\ Eligible(ag[ord[i]])
            /\ \A j \in from..(i - 1) : ~Eligible(ag[ord[j]])
    ELSE 0

\* calls counts the detectStatus calls the tick has made
FinishedTick(threw, calls) ==
    [pc |-> "done", pos |-> 0, id |-> NullId, arg |-> EmptyText,
     lastThrew |-> threw, calls |-> calls]

\* variant: the call is given the last 500 characters of the buffer
ScanFromLastOutput(ag, ord, from, threw, calls) ==
    LET i == NextEligible(ag, ord, from)
    IN  IF i = 0
        THEN FinishedTick(threw, calls)
        ELSE [pc |-> "await", pos |-> i, id |-> ord[i],
              arg |-> SliceFromEnd(ag[ord[i]].outputBuffer, MAX_LAST_OUTPUT_LENGTH),
              lastThrew |-> threw, calls |-> calls + 1]

\* the refresh loop from position from on, until its next await or its end
ScanFrom(ag, ord, from, threw, calls) ==
    LET i == NextEligible(ag, ord, from)
    IN  IF i = 0
        THEN FinishedTick(threw, calls)
        ELSE [pc |-> "await", pos |-> i, id |-> ord[i],
              arg |-> ag[ord[i]].outputBuffer, lastThrew |-> threw,
              calls |-> calls + 1]

\* the setInterval callback starts
TimerFires ==
    /\ ~unmounted
    /\ Events < MaxEvents
    /\ Len(ticks) < MaxTicks
    /\ LET tick == ScanFrom(agents, order, 1, FALSE, 0)
       IN  /\ ticks' = Append(ticks, tick)
           /\ IF tick.pc = "done"
              THEN /\ uiAgents' = Snapshot(agents, order)
                   /\ focusedId' = focusedAgentId
              ELSE UNCHANGED <<uiAgents, focusedId>>
    /\ UNCHANGED <<storeVars, usedNames, isProcessing, error, clarification,
                   handlers, ignored, procs, storeCalls>>
    /\ lastCleaned' = NoCleaned
    /\ UNCHANGED <<unmounted, fnCall, nameLog, startup>>

\* a tick resumes after its await with the store ag
ResumeTick(t, ag, threw) ==
    LET tick == ScanFrom(ag, order, ticks[t].pos + 1, threw, ticks[t].calls)
    IN  /\ agents' = ag
        /\ ticks' = [ticks EXCEPT ![t] = tick]
        /\ IF tick.pc = "done"
           THEN /\ uiAgents' = Snapshot(ag, order)
                /\ focusedId' = focusedAgentId
           ELSE UNCHANGED <<uiAgents, focusedId>>
        /\ UNCHANGED <<order, focusedAgentId, delivered, usedNames, isProcessing,
                       error, clarification, handlers, ignored, procs, storeCalls>>
        /\ lastCleaned' = NoCleaned
        /\ UNCHANGED <<unmounted, fnCall, nameLog, startup>>

\* `await detectStatus(id, agent.outputBuffer)` returns
DetectStatusReturns(t) ==
    /\ t \in 1..Len(ticks)
    /\ ticks[t].pc = "await"
    /\ \E newStatus \in
            { DetectionResult(ticks[t].arg, s, m) :
                 s \in ParsedStatus, m \in ParsedSummary }
            \cup { DetectionResult(ticks[t].arg, o.status, o.summary) :
                       o \in UnexpectedObjects }
            \cup { DetectionFallback(ticks[t].arg) } :
         ResumeTick(t, updateAgentStatus(agents, ticks[t].id, newStatus), FALSE)

\* variant: no try/catch: the rejection ends the callback
DetectStatusThrowsUncaught(t) ==
    /\ t \in 1..Len(ticks)
    /\ ticks[t].pc = "await"
    /\ ticks' = [ticks EXCEPT ![t] = FinishedTick(TRUE, ticks[t].calls)]
    /\ UNCHANGED <<storeVars, usedNames, appVars, handlers, ignored, procs>>
    /\ lastCleaned' = NoCleaned
    /\ UNCHANGED <<unmounted, fnCall, nameLog, startup>>

\* `await detectStatus(id, agent.outputBuffer)` throws: the catch ignores it
DetectStatusThrows(t) ==
    /\ t \in 1..Len(ticks)
    /\ ticks[t].pc = "await"
    /\ ResumeTick(t, agents, TRUE)

Next ==
    \/ \E value \in Lines : HandleSubmit(value)
    \/ \E h \in 1..Len(handlers) : CleanInputThrows(h)
    \/ \E h \in 1..Len(handlers) : CleanInputClarifies(h)
    \/ \E h \in 1..Len(handlers) : CleanInputReturnsTasks(h)
    \/ \E p \in 1..Len(procs), chunk \in Chunks : ProcessOutput(p, chunk)
    \/ \E p \in 1..Len(procs) : ProcessExit(p)
    \/ TimerFires
    \/ \E t \in 1..Len(ticks) : DetectStatusReturns(t)
    \/ \E t \in 1..Len(ticks) : DetectStatusThrows(t)

Spec == Init /\ [][Next]_vars

\* ------------------------------------- the session with its teardown
\* the App is unmounted (exit() or the renderer's unmount): the cleanup of the
\* refresh effect runs clearInterval, and the text input is gone
Unmount ==
    /\ ~unmounted
    /\ unmounted' = TRUE
    /\ lastCleaned' = NoCleaned
    /\ UNCHANGED <<storeVars, usedNames, appVars, handlers, ignored, procs,
                   ticks, fnCall, nameLog, startup>>

NextTeardown ==
    \/ Next
    \/ Unmount

SpecTeardown == Init /\ [][NextTeardown]_vars

\* ------------------------------------- the store called directly (store.test.ts)
AgentOne == <<"a","g","e","n","t","-","1">>
AgentTwo == <<"a","g","e","n","t","-","2">>
StoreIds == { AgentOne, AgentTwo }

\* the Partial<AgentStatus> values a caller passes to updateAgentStatus
PartialStatuses ==
    { [state |-> "working"],
      [summary |-> "Building project", lastOutput |-> Rep("Z", 40)],
      [id |-> AgentTwo] }

\* the record of one more direct call; found: the id was a key when called
Called(op, id) ==
    [n |-> storeCalls.n + 1, op |-> op, id |-> id, found |-> id \in DOMAIN agents]

\* what the App's own variables keep while the store is called directly
appUntouched ==
    <<usedNames, isProcessing, error, clarification, uiAgents, focusedId,
      handlers, ignored, ticks, lastCleaned, unmounted, fnCall, nameLog,
      startup>>

\* addAgent(config, handle) with a new handle
AddAgentCall(id) ==
    /\ storeCalls.n < MaxEvents
    /\ storeCalls' = Called("addAgent", id)
    /\ procs' = Append(procs, [id |-> id, exited |-> FALSE, code |-> 0, written |-> 0,
                                kills |-> 0])
    /\ agents' = addAgent(agents, [id |-> id, task |-> PromptFixBug], Len(procs) + 1)
    /\ order' = InsertionOrder(order, id)
    /\ delivered' = RecordNewAgent(delivered, id)
    /\ UNCHANGED <<focusedAgentId, appUntouched>>

\* updateAgentStatus(id, status)
UpdateAgentStatusCall(id, status) ==
    /\ storeCalls.n < MaxEvents
    /\ storeCalls' = Called("updateAgentStatus", id)
    /\ agents' = updateAgentStatus(agents, id, status)
    /\ UNCHANGED <<order, focusedAgentId, delivered, procs, appUntouched>>

\* appendAgentOutput(id, chunk)
AppendAgentOutputCall(id, chunk) ==
    /\ storeCalls.n < MaxEvents
    /\ storeCalls' = Called("appendAgentOutput", id)
    /\ agents' = appendAgentOutput(agents, id, chunk)
    /\ delivered' = RecordChunk(delivered, agents, id, chunk)
    /\ UNCHANGED <<order, focusedAgentId, procs, appUntouched>>

\* setFocusedAgent(id)
SetFocusedAgentCall(id) ==
    /\ storeCalls.n < MaxEvents
    /\ storeCalls' = Called("setFocusedAgent", id)
    /\ focusedAgentId' = id
    /\ UNCHANGED <<agents, order, delivered, procs, appUntouched>>

\* removeAgent(id)
RemoveAgentCall(id) ==
    /\ storeCalls.n < MaxEvents
    /\ storeCalls' = Called("removeAgent", id)
    /\ procs' = KilledBy(procs, agents, id)
    /\ agents' = removeAgent(agents, id)
    /\ order' = DeletionOrder(order, id)
    /\ delivered' = RecordRemoved(delivered, id)
    /\ UNCHANGED <<focusedAgentId, appUntouched>>

NextStore ==
    \/ \E id \in StoreIds : AddAgentCall(id)
    \/ \E id \in StoreIds, status \in PartialStatuses : UpdateAgentStatusCall(id, status)
    \/ \E id \in StoreIds, chunk \in Chunks : AppendAgentOutputCall(id, chunk)
    \/ \E id \in StoreIds \cup {NullId} : SetFocusedAgentCall(id)
    \/ \E id \in StoreIds : RemoveAgentCall(id)

SpecStore == Init /\ [][NextStore]_vars

\* ------------------------------------- the keyboard (App.tsx useInput handler)
\* the one-character inputs a key press delivers (Escape is apart: key.escape)
KeyInputs == {"0", "1", "2", "3", "9", "a"}

\* input >= '1' && input <= '9', for an input of one character
DigitKeys == <<"1", "2", "3", "4", "5", "6", "7", "8", "9">>
IsDigitKey(input) == \E n \in 1..9 : DigitKeys[n] = input

\* parseInt(input, 10) of a digit key
ParseInt(input) == CHOOSE n \in 1..9 : DigitKeys[n] = input

\* a string | null value is truthy: not null (the ids are not empty)
Truthy(id) == id # NullId

\* the record of a key press or of a sync, where direct store calls are recorded
Pressed(key) == [n |-> storeCalls.n, op |-> "key", id |-> <<key>>, found |-> FALSE]
Synced == [n |-> storeCalls.n, op |-> "syncAgents", id |-> NullId, found |-> FALSE]

\* what a key press leaves alone besides the focus and the published list
keysUntouched ==
    <<agents, order, delivered, procs, usedNames, isProcessing, error,
      clarification, handlers, ignored, ticks, lastCleaned, fnCall, nameLog,
      startup>>

\* setFocusedAgent(id); syncAgents()
FocusAndSync(id) ==
    /\ focusedAgentId' = id
    /\ uiAgents' = Snapshot(agents, order)
    /\ focusedId' = id

\* variant: Escape exits whether an agent is focused or not
KeyEscapeAlwaysExits ==
    /\ ~unmounted
    /\ storeCalls' = Pressed("escape")
    /\ unmounted' = TRUE
    /\ UNCHANGED <<focusedAgentId, uiAgents, focusedId, keysUntouched>>

\* Escape is pressed, lines 102-111: unfocus, or exit() which unmounts the App
KeyEscape ==
    /\ ~unmounted
    /\ storeCalls' = Pressed("escape")
    /\ IF Truthy(focusedId)
       THEN /\ FocusAndSync(NullId)
            /\ UNCHANGED unmounted
       ELSE /\ unmounted' = TRUE
            /\ UNCHANGED <<focusedAgentId, uiAgents, focusedId>>
    /\ UNCHANGED keysUntouched

\* variant: the digit keys select whether an agent is focused or not
KeyInputWhileFocused(input) ==
    /\ ~unmounted
    /\ storeCalls' = Pressed(input)
    /\ IF IsDigitKey(input) /\ ParseInt(input) - 1 < Len(uiAgents)
       THEN FocusAndSync(uiAgents[ParseInt(input)].id)
       ELSE UNCHANGED <<focusedAgentId, uiAgents, focusedId>>
    /\ UNCHANGED <<unmounted, keysUntouched>>

\* a character key is pressed, lines 113-121
KeyInput(input) ==
    /\ ~unmounted
    /\ storeCalls' = Pressed(input)
    /\ IF ~Truthy(focusedId) /\ IsDigitKey(input)
          /\ ParseInt(input) - 1 < Len(uiAgents)
       THEN FocusAndSync(uiAgents[ParseInt(input)].id)
       ELSE UNCHANGED <<focusedAgentId, uiAgents, focusedId>>
    /\ UNCHANGED <<unmounted, keysUntouched>>

\* syncAgents() called by a callback of the session (end of a tick, onExit)
SyncAgentsCall ==
    /\ storeCalls' = Synced
    /\ uiAgents' = Snapshot(agents, order)
    /\ focusedId' = focusedAgentId
    /\ UNCHANGED <<focusedAgentId, unmounted, keysUntouched>>

\* lines 174-186: the focused view is rendered when focusedId is set and the
\* store has that agent, the list view otherwise
RenderedView ==
    IF Truthy(focusedId) /\ focusedId \in DOMAIN agents THEN "focused" ELSE "list"

NextKeys ==
    \/ \E id \in StoreIds : AddAgentCall(id)
    \/ \E id \in StoreIds : RemoveAgentCall(id)
    \/ SyncAgentsCall
    \/ KeyEscape
    \/ \E input \in KeyInputs : KeyInput(input)

SpecKeys == Init /\ [][NextKeys]_vars

\* ------------------------------------- the remote model (Anthropic messages API)
\* a content block of type text, and one of another type
TextBlock(text) == [type |-> "text", text |-> text]
ToolUseBlock == [type |-> "tool_use", text |-> << >>]

\* client.messages.create rejects, or resolves to a message with this content
Rejects == [kind |-> "rejects", content |-> << >>]
Resolves(content) == [kind |-> "resolves", content |-> content]

\* a response text is a sequence of pieces: "{" and "}" are the braces, any
\* other piece is a run of characters without braces
RECURSIVE IndexOfPiece(_, _, _)
IndexOfPiece(text, piece, i) ==
    IF i > Len(text) THEN 0
    ELSE IF text[i] = piece THEN i
    ELSE IndexOfPiece(text, piece, i + 1)

RECURSIVE LastIndexOfPiece(_, _, _)
LastIndexOfPiece(text, piece, i) ==
    IF i < 1 THEN 0
    ELSE IF text[i] = piece THEN i
    ELSE LastIndexOfPiece(text, piece, i - 1)

\* text.match(/\{[\s\S]*\}/): the span from the first "{" to the last "}"
\* after it; NoMatch (null) when there is none
NoMatch == << >>

MatchBraces(text) ==
    IF IndexOfPiece(text, "{", 1) = 0
       \/ LastIndexOfPiece(text, "}", Len(text)) < IndexOfPiece(text, "{", 1)
    THEN NoMatch
    ELSE SubSeq(text, IndexOfPiece(text, "{", 1),
                LastIndexOfPiece(text, "}", Len(text)))

\* response.content[0].type === 'text' ? response.content[0].text : ''
\* (content is not empty)
FirstBlockText(content) ==
    IF content[1].type = "text" THEN content[1].text ELSE << >>

\* the outcome of a try block or of a function: it threw, or returned value
Thrown == [threw |-> TRUE, value |-> << >>]
Returned(value) == [threw |-> FALSE, value |-> value]

\* ------------------------------------- status-detector.ts: detectStatus
\* the JSON texts of the model that JSON.parse accepts, with the object each
\* parses to; JSON.parse throws a SyntaxError on every other text
StatusBodyWorking == "\"status\":\"working\",\"summary\":\"Working on task\""
StatusBodyNeedsInput == "\"status\":\"needs_input\",\"summary\":\"Working on task\""
StatusBodyDone == "\"status\":\"done\",\"summary\":\"Working on task\""

StatusJson ==
    { [text |-> <<"{", StatusBodyWorking, "}">>,
       value |-> [status |-> "working", summary |-> "Working on task"]],
      [text |-> <<"{", StatusBodyNeedsInput, "}">>,
       value |-> [status |-> "needs_input", summary |-> "Working on task"]],
      [text |-> <<"{", StatusBodyDone, "}">>,
       value |-> [status |-> "done", summary |-> "Working on task"]],
      [text |-> <<"{", "}">>,
       value |-> [status |-> Undefined, summary |-> Undefined]] }

\* the texts the remote model can answer a status request with
StatusTexts ==
    { d.text : d \in StatusJson }
    \cup { << >>,
           <<"The agent is still working.">>,
           <<"}", " then ", "{">>,
           <<"{", "status: done", "}">>,
           <<"Here is the JSON: ", "{", StatusBodyDone, "}", " Hope this helps.">>,
           <<"{", StatusBodyDone, "}", " or ", "{", StatusBodyWorking, "}">> }

StatusResponses ==
    { Rejects, Resolves(<< >>), Resolves(<<ToolUseBlock>>),
      Resolves(<<ToolUseBlock, TextBlock(<<"{", StatusBodyDone, "}">>)>>) }
    \cup { Resolves(<<TextBlock(t)>>) : t \in StatusTexts }

\* the texts detectStatus is called on
RecentOutputs ==
    { EmptyText, Rep("B", 300), Rep("A", 500), Rep("A", 501),
      Concat(Rep("A", 300), Rep("B", 300)),
      Concat(Rep("A", 1800), Rep("B", 200)) }

\* JSON.parse(jsonMatch[0]) over the status texts
StatusJsonParses(span) == \E d \in StatusJson : d.text = span
StatusJsonParse(span) == (CHOOSE d \in StatusJson : d.text = span).value

\* lines 44-64, once jsonMatch is known
DetectParsed(recentOutput, jsonMatch) ==
    IF jsonMatch = NoMatch THEN Thrown
    ELSE IF ~StatusJsonParses(jsonMatch) THEN Thrown
    ELSE Returned(DetectionResult(recentOutput,
                                  StatusJsonParse(jsonMatch).status,
                                  StatusJsonParse(jsonMatch).summary))

\* the try block, lines 23-64: content[0] of an empty content list is
\* undefined and reading its type throws a TypeError
DetectTry(recentOutput, response) ==
    IF response.kind = "rejects" THEN Thrown
    ELSE IF response.content = << >> THEN Thrown
    ELSE DetectParsed(recentOutput, MatchBraces(FirstBlockText(response.content)))

\* variant: no catch block
detectStatusNoCatch(recentOutput, response) == DetectTry(recentOutput, response)

\* detectStatus(agentId, recentOutput) when the remote call has this response
detectStatus(recentOutput, response) ==
    IF DetectTry(recentOutput, response).threw
    THEN Returned(DetectionFallback(recentOutput))
    ELSE DetectTry(recentOutput, response)

\* variant: the request carries the whole text
StatusRequestWhole(recentOutput) == recentOutput

\* the ${truncated} of the request's content, lines 19 and 33
StatusRequest(recentOutput) == SliceFromEnd(recentOutput, DETECT_WINDOW)

\* ------------------------------------- input-cleaner.ts: cleanInput
CleanBodyOneTask == "\"tasks\":[{\"prompt\":\"Fix bug\",\"suggestedTools\":[\"Edit\"]}]"
CleanBodyTwoTasks == "\"tasks\":[{\"prompt\":\"Fix bug\"},{\"prompt\":\"fix the bug!\"}]"
CleanBodyClarify == "\"tasks\":[],\"clarificationNeeded\":\"Which file?\""

CleanedJson ==
    { [text |-> <<"{", CleanBodyOneTask, "}">>,
       value |-> [tasks |-> << [prompt |-> PromptFixBug,
                                suggestedTools |-> <<"Edit">>] >>,
                  clarificationNeeded |-> Undefined]],
      [text |-> <<"{", CleanBodyTwoTasks, "}">>,
       value |-> [tasks |-> << [prompt |-> PromptFixBug],
                               [prompt |-> PromptFixTheBug] >>,
                  clarificationNeeded |-> Undefined]],
      [text |-> <<"{", CleanBodyClarify, "}">>,
       value |-> [tasks |-> << >>, clarificationNeeded |-> "Which file?"]] }

\* the texts the remote model can answer a cleaning request with
CleanTexts ==
    { d.text : d \in CleanedJson }
    \cup { << >>,
           <<"I am not sure what you mean.">>,
           <<"{", "tasks: none", "}">>,
           <<"Sure! ", "{", CleanBodyOneTask, "}">> }

CleanResponses ==
    { Rejects, Resolves(<< >>), Resolves(<<ToolUseBlock>>) }
    \cup { Resolves(<<TextBlock(t)>>) : t \in CleanTexts }

\* the raw inputs cleanInput is called on
RawInputs == Lines \cup { << >>, PromptFixBug }

CleanedJsonParses(span) == \E d \in CleanedJson : d.text = span
CleanedJsonParse(span) == (CHOOSE d \in CleanedJson : d.text = span).value

\* lines 16-21 of input-cleaner.ts: the answer to a blank input
EmptyInputResult ==
    [tasks |-> << >>, clarificationNeeded |-> "Please provide a task description."]

\* the try block of src/input-cleaner.ts, lines 24-59: JSON.parse(text)
CleanTry(response) ==
    IF response.kind = "rejects" THEN Thrown
    ELSE IF response.content = << >> THEN Thrown
    ELSE IF ~CleanedJsonParses(FirstBlockText(response.content)) THEN Thrown
    ELSE Returned(CleanedJsonParse(FirstBlockText(response.content)))

\* cleanInput of src/input-cleaner.ts: the catch returns the raw input as
\* a single task
cleanInput(rawInput, response) ==
    IF Trim(rawInput) = << >> THEN Returned(EmptyInputResult)
    ELSE IF CleanTry(response).threw
    THEN Returned([tasks |-> << [prompt |-> rawInput] >>,
                   clarificationNeeded |-> Undefined])
    ELSE CleanTry(response)

\* the try block of the version with logging, lines 28-75: the {...} span of
\* the text is parsed
CleanTryLogged(response) ==
    IF response.kind = "rejects" THEN Thrown
    ELSE IF response.content = << >> THEN Thrown
    ELSE IF MatchBraces(FirstBlockText(response.content)) = NoMatch THEN Thrown
    ELSE IF ~CleanedJsonParses(MatchBraces(FirstBlockText(response.content)))
    THEN Thrown
    ELSE Returned(CleanedJsonParse(MatchBraces(FirstBlockText(response.content))))

\* cleanInput of the version with logging: the catch logs and rethrows
cleanInputLogged(rawInput, response) ==
    IF Trim(rawInput) = << >> THEN Returned(EmptyInputResult)
    ELSE CleanTryLogged(response)

\* ------------------------------------- one call taken alone
\* the state of the session, which a call taken alone leaves as it is
sessionVars ==
    <<agents, order, focusedAgentId, usedNames, isProcessing, error,
      clarification, uiAgents, focusedId, handlers, ignored, procs, ticks,
      delivered, storeCalls, lastCleaned, unmounted, nameLog, startup>>

Pending(fn, input, response) ==
    [fn |-> fn, input |-> input, response |-> response, settled |-> FALSE,
     threw |-> FALSE, sent |-> << >>, value |-> << >>]

\* the calls that can be made
PendingCalls ==
    { Pending("detectStatus", i, r) : i \in RecentOutputs, r \in StatusResponses }
    \cup { Pending(f, i, r) : f \in {"cleanInput", "cleanInputLogged"},
                              i \in RawInputs, r \in CleanResponses }
    \cup { Pending("generateAgentName", i, [used |-> u, suffix |-> x]) :
              i \in TaskPrompts, u \in UsedNameSets, x \in Suffixes }

Settled(outcome, sent) ==
    [fnCall EXCEPT !.settled = TRUE, !.threw = outcome.threw,
                   !.value = outcome.value, !.sent = sent]

IsPending(fn) == fnCall.fn = fn /\ ~fnCall.settled

DetectStatusCall ==
    /\ IsPending("detectStatus")
    /\ fnCall' = Settled(detectStatus(fnCall.input, fnCall.response),
                         StatusRequest(fnCall.input))
    /\ UNCHANGED sessionVars

CleanInputCall ==
    /\ IsPending("cleanInput")
    /\ fnCall' = Settled(cleanInput(fnCall.input, fnCall.response), << >>)
    /\ UNCHANGED sessionVars

CleanInputLoggedCall ==
    /\ IsPending("cleanInputLogged")
    /\ fnCall' = Settled(cleanInputLogged(fnCall.input, fnCall.response), << >>)
    /\ UNCHANGED sessionVars

GenerateAgentNameCall ==
    /\ IsPending("generateAgentName")
    /\ fnCall' = Settled(Returned(generateAgentName(fnCall.response.used,
                                                   fnCall.input,
                                                   fnCall.response.suffix)),
                         << >>)
    /\ UNCHANGED sessionVars

InitCalls ==
    /\ agents = << >>
    /\ order = << >>
    /\ focusedAgentId = NullId
    /\ usedNames = {}
    /\ isProcessing = FALSE
    /\ error = Null
    /\ clarification = Null
    /\ uiAgents = << >>
    /\ focusedId = NullId
    /\ handlers = << >>
    /\ ignored = 0
    /\ procs = << >>
    /\ ticks = << >>
    /\ delivered = << >>
    /\ storeCalls = [n |-> 0, op |-> "none", id |-> NullId, found |-> FALSE]
    /\ lastCleaned = NoCleaned
    /\ unmounted = FALSE
    /\ fnCall \in PendingCalls
    /\ nameLog = << >>
    /\ startup = Rendered

NextCalls ==
    \/ DetectStatusCall
    \/ CleanInputCall
    \/ CleanInputLoggedCall
    \/ GenerateAgentNameCall

SpecCalls == InitCalls /\ [][NextCalls]_vars


\* ------------------------------------- agent-name.ts and the store, called directly
\* the prompts generateAgentName is called on in a session; the base name of the
\* last, "fix bug x7k", is a name the generator can issue with a suffix
NamePrompts ==
    { PromptFixBug, PromptFixTheBug,
      <<"f","i","x"," ","b","u","g"," ","x","7","k">> }

\* one more call in the log: its operation, the base name computed (a call of
\* generateAgentName), and the name returned or the id passed
Logged(op, baseName, name) ==
    Append(nameLog, [op |-> op, baseName |-> baseName, name |-> name])

\* what the calls of this session leave alone
namesUntouched ==
    <<isProcessing, error, clarification, uiAgents, focusedId, handlers,
      ignored, ticks, storeCalls, lastCleaned, unmounted, fnCall, startup>>

\* generateAgentName(taskPrompt), with the suffix generateSuffix() would return
GenerateAgentName(taskPrompt, suffix) ==
    /\ Len(nameLog) < MaxNameCalls
    /\ usedNames' = usedNames \cup { generateAgentName(usedNames, taskPrompt, suffix).name }
    /\ nameLog' = Logged("generateAgentName",
                         generateAgentName(usedNames, taskPrompt, suffix).baseName,
                         generateAgentName(usedNames, taskPrompt, suffix).name)
    /\ UNCHANGED <<storeVars, procs, namesUntouched>>

\* variant: the set of used names is kept
ResetUsedNamesKeepsNames ==
    /\ Len(nameLog) < MaxNameCalls
    /\ nameLog' = Logged("resetUsedNames", NullId, NullId)
    /\ UNCHANGED <<usedNames, storeVars, procs, namesUntouched>>

\* resetUsedNames(): usedNames.clear()
ResetUsedNames ==
    /\ Len(nameLog) < MaxNameCalls
    /\ usedNames' = {}
    /\ nameLog' = Logged("resetUsedNames", NullId, NullId)
    /\ UNCHANGED <<storeVars, procs, namesUntouched>>

\* addAgent(config, handle) with config.id a name issued, and a new handle
AddNamedAgent(id) ==
    /\ Len(nameLog) < MaxNameCalls
    /\ nameLog' = Logged("addAgent", NullId, id)
    /\ procs' = Append(procs, [id |-> id, exited |-> FALSE, code |-> 0, written |-> 0,
                                kills |-> 0])
    /\ agents' = addAgent(agents, [id |-> id, task |-> PromptFixBug], Len(procs) + 1)
    /\ order' = InsertionOrder(order, id)
    /\ delivered' = RecordNewAgent(delivered, id)
    /\ UNCHANGED <<focusedAgentId, usedNames, namesUntouched>>

\* variant: removeAgent gives the agent's name back
RemoveNamedAgentFreesName(id) ==
    /\ Len(nameLog) < MaxNameCalls
    /\ nameLog' = Logged("removeAgent", NullId, id)
    /\ procs' = KilledBy(procs, agents, id)
    /\ agents' = removeAgent(agents, id)
    /\ order' = DeletionOrder(order, id)
    /\ delivered' = RecordRemoved(delivered, id)
    /\ usedNames' = usedNames \ {id}
    /\ UNCHANGED <<focusedAgentId, namesUntouched>>

\* removeAgent(id)
RemoveNamedAgent(id) ==
    /\ Len(nameLog) < MaxNameCalls
    /\ nameLog' = Logged("removeAgent", NullId, id)
    /\ procs' = KilledBy(procs, agents, id)
    /\ agents' = removeAgent(agents, id)
    /\ order' = DeletionOrder(order, id)
    /\ delivered' = RecordRemoved(delivered, id)
    /\ UNCHANGED <<focusedAgentId, usedNames, namesUntouched>>

\* resetStore(): store = createEmptyStore(); no handle is killed
ResetStore ==
    /\ Len(nameLog) < MaxNameCalls
    /\ nameLog' = Logged("resetStore", NullId, NullId)
    /\ agents' = << >>
    /\ order' = << >>
    /\ focusedAgentId' = NullId
    /\ delivered' = << >>
    /\ UNCHANGED <<procs, usedNames, namesUntouched>>

NextNames ==
    \/ \E taskPrompt \in NamePrompts, suffix \in Suffixes :
          GenerateAgentName(taskPrompt, suffix)
    \/ ResetUsedNames
    \/ \E id \in usedNames : AddNamedAgent(id)
    \/ \E id \in DOMAIN agents : RemoveNamedAgent(id)
    \/ ResetStore

SpecNames == Init /\ [][NextNames]_vars

\* ------------------------------------- index.tsx: the start of the process
\* the states the process starts in: the credential variable ANTHROPIC_API_KEY
\* set or not, and the revision of index.tsx that runs, with the check of the
\* variable or without it
StartupStates ==
    { [pc |-> "loading", credential |-> c, checks |-> k, exitCode |-> 0] :
        c \in BOOLEAN, k \in BOOLEAN }

\* index.tsx runs: console.error and process.exit(1) when the revision checks
\* the variable and it is not set, render(<App />) otherwise
RunIndex ==
    /\ startup.pc = "loading"
    /\ startup' = IF startup.checks /\ ~startup.credential
                  THEN [startup EXCEPT !.pc = "exited", !.exitCode = 1]
                  ELSE [startup EXCEPT !.pc = "rendered"]
    /\ UNCHANGED <<agents, order, focusedAgentId, usedNames, isProcessing, error,
                 clarification, uiAgents, focusedId, handlers, ignored, procs,
                 ticks, delivered, storeCalls, lastCleaned, unmounted, fnCall,
                 nameLog>>

InitStartup ==
    /\ agents = << >>
    /\ order = << >>
    /\ focusedAgentId = NullId
    /\ usedNames = {}
    /\ isProcessing = FALSE
    /\ error = Null
    /\ clarification = Null
    /\ uiAgents = << >>
    /\ focusedId = NullId
    /\ handlers = << >>
    /\ ignored = 0
    /\ procs = << >>
    /\ ticks = << >>
    /\ delivered = << >>
    /\ storeCalls = [n |-> 0, op |-> "none", id |-> NullId, found |-> FALSE]
    /\ lastCleaned = NoCleaned
    /\ unmounted = FALSE
    /\ fnCall = NoCall
    /\ nameLog = << >>
    /\ startup \in StartupStates

\* the App's handlers and timers run once the App is rendered
NextStartup ==
    \/ RunIndex
    \/ (startup.pc = "rendered" /\ Next)

SpecStartup == InitStartup /\ [][NextStartup]_vars

\* ------------------------------------- removeAgent called during the session
\* a Map iterator goes on after a delete: a tick that awaits keeps its place
\* among the entries left (its position moves down when an entry at or before
\* it is deleted)
PosAfterDelete(tick, ord, id) ==
    IF tick.pc = "await" /\ \E i \in 1..tick.pos : ord[i] = id
    THEN [tick EXCEPT !.pos = @ - 1]
    ELSE tick

\* removeAgent(id) while callbacks are subscribed and ticks may be awaiting
RemoveAgentInSession(id) ==
    /\ storeCalls.n < MaxRemovals
    /\ storeCalls' = Called("removeAgent", id)
    /\ procs' = KilledBy(procs, agents, id)
    /\ agents' = removeAgent(agents, id)
    /\ order' = DeletionOrder(order, id)
    /\ delivered' = RecordRemoved(delivered, id)
    /\ ticks' = [t \in 1..Len(ticks) |-> PosAfterDelete(ticks[t], order, id)]
    /\ lastCleaned' = NoCleaned
    /\ UNCHANGED <<focusedAgentId, usedNames, isProcessing, error, clarification,
                   uiAgents, focusedId, handlers, ignored, unmounted, fnCall,
                   nameLog, startup>>

NextRemoval ==
    \/ Next
    \/ \E p \in 1..Len(procs) : RemoveAgentInSession(procs[p].id)

SpecRemoval == Init /\ [][NextRemoval]_vars


\* ======================================================== properties
TerminalStates == {"done", "error"}

\* C1: done and error are terminal: once an agent's state is done or error, no
\* step changes that agent's state, a classification result whose call was
\* started before the state became done included.
C1_TerminalStateNeverChanges ==
    [][ \A id \in DOMAIN agents :
          ( /\ id \in DOMAIN agents'
            /\ agents'[id].handle = agents[id].handle
            /\ agents[id].status.state \in TerminalStates )
          => agents'[id].status.state = agents[id].status.state ]_vars

\* tick t starts a call of detectStatus in this step
CallStarted(t) ==
    /\ t \in 1..Len(ticks')
    /\ ticks'[t].pc = "await"
    /\ t > Len(ticks) \/ ticks[t].pos # ticks'[t].pos

\* C2: the periodic refresh starts a Status Classifier call for an agent only
\* if, when the agent is scanned, its state is working or starting and its
\* output buffer is not empty.
C2_ClassifierOnlyForEligible ==
    [][ \A t \in 1..Len(ticks') :
          CallStarted(t) =>
            /\ ticks'[t].id \in DOMAIN agents'
            /\ agents'[ticks'[t].id].status.state \in {"working", "starting"}
            /\ TextLen(agents'[ticks'[t].id].outputBuffer) > 0 ]_vars

\* a tick has passed over the first agent of the registry, which was not
\* eligible, and awaits the classification of a later one
C2_Witness ==
    \E t \in 1..Len(ticks) :
        /\ ticks[t].pc = "await"
        /\ ticks[t].pos > 1
        /\ \/ TextLen(agents[order[1]].outputBuffer) = 0
           \/ agents[order[1]].status.state \notin {"working", "starting"}

\* C3: every agent's outputBuffer has at most 2000 characters, in every
\* reachable state.
C3_BufferAtMost2000 ==
    \A id \in DOMAIN agents :
        TextLen(agents[id].outputBuffer) <= MAX_OUTPUT_BUFFER_LENGTH

\* all the chunks of a list, joined in order
RECURSIVE ConcatAll(_)
ConcatAll(chunks) ==
    IF chunks = << >> THEN EmptyText
    ELSE Concat(chunks[1], ConcatAll(Tail(chunks)))

\* an agent has been sent more than 2000 characters and its buffer is full
C3_Witness ==
    \E id \in DOMAIN agents :
        /\ TextLen(ConcatAll(delivered[id])) > MAX_OUTPUT_BUFFER_LENGTH
        /\ TextLen(agents[id].outputBuffer) = MAX_OUTPUT_BUFFER_LENGTH

Min(a, b) == IF a < b THEN a ELSE b

\* C4: an agent's outputBuffer is the last min(2000, total length) characters
\* of the concatenation of all its chunks, in the order they were delivered.
C4_BufferIsTailOfAllChunks ==
    \A id \in DOMAIN agents :
        LET all == ConcatAll(delivered[id])
            n == Min(MAX_OUTPUT_BUFFER_LENGTH, TextLen(all))
        IN  /\ TextLen(agents[id].outputBuffer) = n
            /\ agents[id].outputBuffer = LastChars(all, n)

\* two different chunks, more than 2000 characters in all, have been appended
\* to one agent: its buffer holds the end of the first and the whole second
C4_Witness ==
    \E id \in DOMAIN agents :
        /\ Len(delivered[id]) >= 2
        /\ TextLen(ConcatAll(delivered[id])) > MAX_OUTPUT_BUFFER_LENGTH
        /\ Len(agents[id].outputBuffer) >= 2

\* the calls of handleSubmit awaiting cleanInput
InFlight == { h \in 1..Len(handlers) : handlers[h].pc = "cleaning" }

C6_FlagClearedOnEveryExit ==
    /\ [][ \A h \in 1..Len(handlers) :
             (handlers[h].pc = "cleaning" /\ handlers'[h].pc # "cleaning") =>
                /\ ~isProcessing'
                /\ handlers'[h].pc = "failed" => error' \in ErrorMessages ]_vars
    /\ [](InFlight = {} => ~isProcessing)
    /\ (isProcessing ~> ~isProcessing)

\* submissions have ended on each of the three exit paths
C6_Witness ==
    /\ ~isProcessing
    /\ \E h \in 1..Len(handlers) : handlers[h].pc = "failed"
    /\ \E h \in 1..Len(handlers) : handlers[h].pc \in {"clarified", "spawned"}
    /\ error \in ErrorMessages

\* tick t resumes in this step from a call of detectStatus that threw
ThrowSwallowed(t) ==
    /\ t \in 1..Len(ticks)
    /\ ticks[t].pc = "await"
    /\ ticks'[t] # ticks[t]
    /\ ticks'[t].lastThrew

\* the positions after from, in Map order, of the agents in state working or
\* starting with a non-empty buffer
EligibleAfter(from) ==
    { j \in (from + 1)..Len(order) :
        /\ agents[order[j]].status.state \in {"working", "starting"}
        /\ TextLen(agents[order[j]].outputBuffer) > 0 }

\* C7: when the Status Classifier call for one agent throws, that agent's
\* status is unchanged, the tick goes on to the next eligible agent of the
\* registry, and the tick publishes its snapshot when it ends.
C7_ThrowIsolatedPerAgent ==
    /\ [][ \A t \in 1..Len(ticks) :
             ThrowSwallowed(t) =>
               /\ agents' = agents
               /\ IF EligibleAfter(ticks[t].pos) # {}
                  THEN /\ ticks'[t].pc = "await"
                       /\ ticks'[t].pos \in EligibleAfter(ticks[t].pos)
                       /\ \A j \in EligibleAfter(ticks[t].pos) : ticks'[t].pos <= j
                       /\ ticks'[t].id = order[ticks'[t].pos]
                  ELSE ticks'[t].pc = "done" ]_vars
    /\ [][ \A t \in 1..Len(ticks) :
             (ticks[t].pc = "await" /\ ticks'[t].pc = "done") =>
                uiAgents' = [ i \in 1..Len(order') |-> agents'[order'[i]].status ]
          ]_vars

\* after a call that threw, a tick awaits the classification of a later agent
C7_Witness ==
    \E t \in 1..Len(ticks) :
        /\ ticks[t].pc = "await"
        /\ ticks[t].lastThrew
        /\ ticks[t].pos > 1

\* C8: at most one Status Classifier call is in flight at any time.
C8_AtMostOneClassifierCall ==
    Cardinality({ t \in 1..Len(ticks) : ticks[t].pc = "await" }) <= 1

\* C9: for every key id of the registry, agents[id].config.id = id and
\* agents[id].status.id = id, whatever partial status updateStatus is given.
C9_StatusIdIsKey ==
    \A id \in DOMAIN agents :
        agents[id].config.id = id /\ agents[id].status.id = id

StoreCalled(op) == storeCalls'.n = storeCalls.n + 1 /\ storeCalls'.op = op

\* C11: updateStatus, appendOutput and removeAgent called with an id that is not
\* a key of the registry leave the agents, their buffers and statuses and the
\* focus pointer as they were, and removeAgent kills no handle.
C11_UnknownIdIsNoOp ==
    [][ ( /\ \/ StoreCalled("updateAgentStatus")
             \/ StoreCalled("appendAgentOutput")
             \/ StoreCalled("removeAgent")
          /\ storeCalls'.id \notin DOMAIN agents )
        => /\ agents' = agents
           /\ order' = order
           /\ focusedAgentId' = focusedAgentId
           /\ procs' = procs ]_vars

\* one of the three operations has just been called with an id that was not
\* a key, while the registry held another agent with output and the focus
C11_Witness ==
    /\ storeCalls.op \in {"updateAgentStatus", "appendAgentOutput", "removeAgent"}
    /\ ~storeCalls.found
    /\ storeCalls.id = AgentTwo
    /\ DOMAIN agents = {AgentOne}
    /\ TextLen(agents[AgentOne].outputBuffer) > 0
    /\ focusedAgentId = AgentOne

\* C12: removeAgent(id) on a key of the registry kills that agent's handle
\* once and takes the key out; removeAgent(id) on an id that is not a key
\* kills nothing, so no handle is ever killed twice.
C12_RemoveKillsExactlyOnce ==
    /\ [](\A p \in 1..Len(procs) : procs[p].kills <= 1)
    /\ [][ StoreCalled("removeAgent") =>
            IF storeCalls'.id \in DOMAIN agents
            THEN /\ storeCalls'.id \notin DOMAIN agents'
                 /\ procs' = [procs EXCEPT
                                 ![agents[storeCalls'.id].handle].kills = @ + 1]
                 /\ \A k \in DOMAIN agents \ {storeCalls'.id} :
                        k \in DOMAIN agents' /\ agents'[k] = agents[k]
            ELSE procs' = procs ]_vars

\* the only agent ever added was removed, its handle killed once, and
\* removeAgent has just been called for it again
C12_Witness ==
    /\ storeCalls.op = "removeAgent"
    /\ ~storeCalls.found
    /\ Len(procs) = 1
    /\ procs[1].id = storeCalls.id
    /\ procs[1].kills = 1
    /\ storeCalls.id \notin DOMAIN agents

\* C20: addAgent(config, handle) puts under key config.id an agent with
\* status.id = config.id, state starting, empty summary, lastOutput and
\* outputBuffer, and the given config and handle; the other agents stay.
C20_AddAgentCreatesFreshAgent ==
    [][ StoreCalled("addAgent") =>
          /\ storeCalls'.id \in DOMAIN agents'
          /\ agents'[storeCalls'.id] =
                [ config |-> [id |-> storeCalls'.id, task |-> PromptFixBug],
                  handle |-> Len(procs'),
                  status |-> [ id |-> storeCalls'.id, state |-> "starting",
                               summary |-> "", lastOutput |-> EmptyText ],
                  outputBuffer |-> EmptyText ]
          /\ \A k \in DOMAIN agents \ {storeCalls'.id} :
                 k \in DOMAIN agents' /\ agents'[k] = agents[k] ]_vars

\* addAgent has just been called for an id that was already a key, with a
\* second handle, and the agent is fresh
C20_Witness ==
    /\ storeCalls.op = "addAgent"
    /\ storeCalls.found
    /\ Len(procs) = 2
    /\ procs[1].id = storeCalls.id
    /\ agents[storeCalls.id].handle = 2
    /\ agents[storeCalls.id].status.state = "starting"
    /\ agents[storeCalls.id].outputBuffer = EmptyText

\* C13: within one session the names generateAgentName returns are pairwise
\* distinct, whatever the task texts and the random suffixes: no two spawned
\* agents share an id.
C13_NamesPairwiseDistinct ==
    \A p, q \in 1..Len(procs) : p # q => procs[p].id # procs[q].id

\* the lifecycle graph: the states an agent may go to from a non-terminal state
LifecycleSuccessors(state) ==
    CASE state = "starting" -> {"working", "done", "error"}
      [] state = "working" -> {"working", "needs_input", "done", "error"}
      [] state = "needs_input" -> {"working", "done", "error"}
      [] OTHER -> {}

\* C14: every change of a non-terminal agent's state follows the lifecycle
\* graph: from starting to working, done or error; from working to
\* needs_input, done or error; from needs_input to working, done or error.
C14_StateChangesFollowLifecycle ==
    [][ \A id \in DOMAIN agents :
          ( /\ id \in DOMAIN agents'
            /\ agents'[id].handle = agents[id].handle
            /\ agents[id].status.state \notin TerminalStates
            /\ agents'[id].status.state # agents[id].status.state )
          => agents'[id].status.state \in
                LifecycleSuccessors(agents[id].status.state) ]_vars

C16_ClarificationSpawnsNothing ==
    [][ \A h \in 1..Len(handlers) :
          ( handlers[h].pc = "cleaning" /\ handlers'[h].pc = "clarified" )
          => /\ clarification' \in Clarifications
             /\ agents' = agents
             /\ order' = order
             /\ procs' = procs
             /\ usedNames' = usedNames ]_vars

\* a submission ended on a clarification whose result held two tasks, and
\* nothing was ever spawned
C16_Witness ==
    \E h \in 1..Len(handlers) :
        /\ handlers[h].pc = "clarified"
        /\ lastCleaned.h = h
        /\ Len(lastCleaned.tasks) = 2
        /\ clarification \in Clarifications
        /\ procs = << >>
        /\ agents = << >>

\* handler h leaves `await cleanInput` in this step and ends at position pc
Settles(h, pc) ==
    /\ h \in 1..Len(handlers)
    /\ handlers[h].pc = "cleaning"
    /\ handlers'[h].pc = pc
    /\ lastCleaned'.h = h

\* C17: if spawning the k-th task of a submission throws, an error message is
\* set, tasks k..n are neither spawned nor registered, and the agents
\* registered for tasks 1..k-1 stay in the registry, their handles not killed.
C17_SpawnFailureKeepsEarlierAgents ==
    [][ \A h \in 1..Len(handlers) :
          ( Settles(h, "failed") /\ lastCleaned'.failAt > 0 ) =>
             LET k == lastCleaned'.failAt
                 tasks == lastCleaned'.tasks
             IN  /\ error' \in ErrorMessages
                 /\ Len(procs') = Len(procs) + k - 1
                 /\ Cardinality(DOMAIN agents') <=
                        Cardinality(DOMAIN agents) + k - 1
                 /\ \A i \in 1..(k - 1) :
                       LET p == Len(procs) + i
                           id == procs'[p].id
                       IN  /\ id \in DOMAIN agents'
                           /\ agents'[id].handle = p
                           /\ agents'[id].config.task = tasks[i]
                           /\ procs'[p].kills = 0
                           /\ ~procs'[p].exited
                 /\ \A p \in 1..Len(procs) : procs'[p] = procs[p] ]_vars

\* the spawn of the second of two tasks has just thrown: the error is shown and
\* the first task's agent is registered, its handle alive
C17_Witness ==
    /\ lastCleaned.failAt = 2
    /\ Len(lastCleaned.tasks) = 2
    /\ handlers[lastCleaned.h].pc = "failed"
    /\ error \in ErrorMessages
    /\ Len(procs) = 1
    /\ procs[1].kills = 0
    /\ DOMAIN agents = {procs[1].id}
    /\ agents[procs[1].id].config.task = lastCleaned.tasks[1]

\* C18: after an accepted submission whose result has n tasks and no
\* clarification, and in which no spawn throws, the registry holds exactly n
\* more agents than before, inserted in task-list order, one per task, each
\* in state starting with its task prompt as config.task.
C18_EveryTaskRegisteredInOrder ==
    [][ \A h \in 1..Len(handlers) :
          Settles(h, "spawned") =>
             LET tasks == lastCleaned'.tasks
                 n == Len(tasks)
             IN  /\ Len(procs') = Len(procs) + n
                 /\ Cardinality(DOMAIN agents') = Cardinality(DOMAIN agents) + n
                 /\ order' = order \o [i \in 1..n |-> procs'[Len(procs) + i].id]
                 /\ \A i \in 1..n :
                       LET id == procs'[Len(procs) + i].id
                       IN  /\ id \in DOMAIN agents'
                           /\ agents'[id].handle = Len(procs) + i
                           /\ agents'[id].status.state = "starting"
                           /\ agents'[id].config.task = tasks[i] ]_vars

\* the position tick t had reached before this step, 0 for a tick that starts
PosBefore(t) == IF t > Len(ticks) THEN 0 ELSE ticks[t].pos

\* the calls tick t had made before this step
CallsBefore(t) == IF t > Len(ticks) THEN 0 ELSE ticks[t].calls

\* tick t ends its scan in this step
TickEnded(t) ==
    /\ t \in 1..Len(ticks')
    /\ ticks'[t].pc = "done"
    /\ t > Len(ticks) \/ ticks[t].pc = "await"

\* the agent at position j is in state working or starting with a non-empty
\* buffer in the store the scan of this step reads
EligibleWhenScanned(j) ==
    /\ agents'[order'[j]].status.state \in {"working", "starting"}
    /\ TextLen(agents'[order'[j]].outputBuffer) > 0

\* the agents of the registry whose buffer is empty after this step
EmptyBuffered == { id \in DOMAIN agents' : TextLen(agents'[id].outputBuffer) = 0 }

\* C19: in each refresh tick, every agent in state working or starting with a
\* non-empty buffer when scanned is passed to the Status Classifier exactly
\* once, with its own id and its full current outputBuffer; with one
\* empty-buffered and one non-empty agent the classifier is called exactly
\* once in the tick.
C19_EligibleAgentsPassedOnceWithFullBuffer ==
    /\ [][ \A t \in 1..Len(ticks') :
             CallStarted(t) =>
               /\ ticks'[t].pos > PosBefore(t)
               /\ ticks'[t].pos <= Len(order')
               /\ ticks'[t].id = order'[ticks'[t].pos]
               /\ ticks'[t].arg = agents'[ticks'[t].id].outputBuffer
               /\ ticks'[t].calls = CallsBefore(t) + 1
               /\ \A j \in (PosBefore(t) + 1)..(ticks'[t].pos - 1) :
                     ~EligibleWhenScanned(j) ]_vars
    /\ [][ \A t \in 1..Len(ticks') :
             TickEnded(t) =>
               /\ ticks'[t].calls = CallsBefore(t)
               /\ \A j \in (PosBefore(t) + 1)..Len(order') :
                     ~EligibleWhenScanned(j) ]_vars
    /\ [][ \A t \in 1..Len(ticks') :
             (/\ t > Len(ticks)
              /\ Len(procs') = 2
              /\ Len(order') = 2
              /\ Cardinality(EmptyBuffered) = 1
              /\ \E j \in 1..2 : EligibleWhenScanned(j)) =>
               /\ ticks'[t].pc = "await"
               /\ ticks'[t].calls = 1
               /\ ticks'[t].id \notin EmptyBuffered ]_vars
    /\ [][ \A t \in 1..Len(ticks') :
             (/\ TickEnded(t)
              /\ Len(procs') = 2
              /\ Len(order') = 2
              /\ Cardinality(EmptyBuffered) = 1) =>
               ticks'[t].calls <= 1 ]_vars

\* a tick over two agents, one with an empty buffer and one whose buffer has
\* more than 500 characters, has ended after exactly one call
C19_Witness ==
    /\ Len(order) = 2
    /\ Len(procs) = 2
    /\ \E id \in DOMAIN agents : TextLen(agents[id].outputBuffer) = 0
    /\ \E id \in DOMAIN agents :
          TextLen(agents[id].outputBuffer) > MAX_LAST_OUTPUT_LENGTH
    /\ \E t \in 1..Len(ticks) :
          /\ ticks[t].pc = "done"
          /\ ticks[t].calls = 1
          /\ ~ticks[t].lastThrew

\* out is the last 500 characters of input, all of input when it has no more
IsLast500Of(out, input) ==
    IF TextLen(input) <= 500
    THEN out = input
    ELSE /\ TextLen(out) = 500
         /\ Concat(FirstChars(input, TextLen(input) - 500), out) = input

\* the responses to a status request that are failures: the call rejects, the
\* content list is empty, the first block is not text, the text has no {...}
\* span, the span is not JSON
FailedStatusResponses ==
    { Rejects, Resolves(<< >>), Resolves(<<ToolUseBlock>>),
      Resolves(<<ToolUseBlock, TextBlock(<<"{", StatusBodyDone, "}">>)>>),
      Resolves(<<TextBlock(<< >>)>>),
      Resolves(<<TextBlock(<<"The agent is still working.">>)>>),
      Resolves(<<TextBlock(<<"}", " then ", "{">>)>>),
      Resolves(<<TextBlock(<<"{", "status: done", "}">>)>>),
      Resolves(<<TextBlock(<<"{", StatusBodyDone, "}", " or ",
                             "{", StatusBodyWorking, "}">>)>>) }

\* C21: the Status Classifier never throws; when the remote call rejects, or
\* answers an empty content list, a non-text first block, a text with no {...}
\* span or a span that does not parse, it returns state working, summary
\* "Processing..." and the truncated input as lastOutput.
C21_StatusClassifierFallsBack ==
    (fnCall.fn = "detectStatus" /\ fnCall.settled) =>
        /\ ~fnCall.threw
        /\ fnCall.response \in FailedStatusResponses =>
              /\ fnCall.value.state = "working"
              /\ fnCall.value.summary = "Processing..."
              /\ IsLast500Of(fnCall.value.lastOutput, fnCall.input)

\* detectStatus has returned the fallback for a text of 600 characters whose
\* response had an empty content list
C21_Witness ==
    /\ fnCall.fn = "detectStatus"
    /\ fnCall.settled
    /\ fnCall.response = Resolves(<< >>)
    /\ TextLen(fnCall.input) = 600
    /\ fnCall.value.summary = "Processing..."

\* C22: for every input text, the Status Classifier sends to the remote model,
\* and returns as lastOutput on the success and on the fallback path, the
\* last 500 characters of the input (all of it when it has 500 characters or
\* fewer): 300 "A" then 300 "B" gives 200 "A" then 300 "B".
C22_ClassifierSeesLast500 ==
    (fnCall.fn = "detectStatus" /\ fnCall.settled) =>
        /\ IsLast500Of(fnCall.sent, fnCall.input)
        /\ IsLast500Of(fnCall.value.lastOutput, fnCall.input)
        /\ fnCall.input = <<  <<"A", 300>>, <<"B", 300>> >> =>
              /\ fnCall.sent = << <<"A", 200>>, <<"B", 300>> >>
              /\ fnCall.value.lastOutput = << <<"A", 200>>, <<"B", 300>> >>

\* detectStatus has returned the parsed state done for 300 "A" then 300 "B"
C22_Witness ==
    /\ fnCall.fn = "detectStatus"
    /\ fnCall.settled
    /\ fnCall.input = << <<"A", 300>>, <<"B", 300>> >>
    /\ fnCall.value.state = "done"
    /\ fnCall.value.lastOutput = << <<"A", 200>>, <<"B", 300>> >>

\* the responses to a cleaning request that are failures: the call rejects,
\* the response has no JSON in it, the text is not JSON
FailedCleanResponses ==
    { Rejects, Resolves(<< >>), Resolves(<<ToolUseBlock>>),
      Resolves(<<TextBlock(<< >>)>>),
      Resolves(<<TextBlock(<<"I am not sure what you mean.">>)>>),
      Resolves(<<TextBlock(<<"{", "tasks: none", "}">>)>>) }

\* C23: the Input Classifier never throws for a non-blank input; when the
\* remote call rejects, the response has no JSON or the JSON does not parse,
\* it returns exactly one task, whose prompt is the raw input, with no
\* suggested tools and no clarification.
C23_InputClassifierFallsBack ==
    ( /\ fnCall.fn \in {"cleanInput", "cleanInputLogged"}
      /\ fnCall.settled
      /\ Trim(fnCall.input) # << >> ) =>
        /\ ~fnCall.threw
        /\ fnCall.response \in FailedCleanResponses =>
              /\ Len(fnCall.value.tasks) = 1
              /\ fnCall.value.tasks[1].prompt = fnCall.input
              /\ "suggestedTools" \notin DOMAIN fnCall.value.tasks[1]
              /\ fnCall.value.clarificationNeeded = Undefined

\* C28: in every reachable state every agent's status.lastOutput has at most
\* 500 characters, after any appendOutput calls and any status merges from
\* the Status Classifier.
C28_LastOutputAtMost500 ==
    \A id \in DOMAIN agents :
        TextLen(agents[id].status.lastOutput) <= MAX_LAST_OUTPUT_LENGTH

\* an agent whose buffer has more than 500 characters has a status merged
\* from the Status Classifier, with a lastOutput of 500 characters
C28_Witness ==
    \E id \in DOMAIN agents :
        /\ TextLen(agents[id].outputBuffer) > MAX_LAST_OUTPUT_LENGTH
        /\ agents[id].status.summary \in ParsedSummary \cup {"Processing..."}
        /\ TextLen(agents[id].status.lastOutput) = MAX_LAST_OUTPUT_LENGTH

\* the digit key n is pressed in this step
DigitPressed(n) == storeCalls'.op = "key" /\ storeCalls'.id = <<DigitKeys[n]>>

\* Escape is pressed in this step
EscapePressed == storeCalls'.op = "key" /\ storeCalls'.id = <<"escape">>

\* C24: with no agent focused, the digit key N in 1..9 sets the focus to the
\* N-th agent in display (insertion) order when N is at most the number of
\* agents, and changes nothing otherwise; while an agent is focused the digit
\* keys do not change the focus.
C24_DigitKeysSelectWhenUnfocused ==
    [][ \A n \in 1..9 :
          DigitPressed(n) =>
            IF Truthy(focusedId)
            THEN focusedAgentId' = focusedAgentId /\ focusedId' = focusedId
            ELSE IF n <= Len(uiAgents)
            THEN /\ focusedAgentId' = uiAgents[n].id
                 /\ focusedId' = uiAgents[n].id
                 /\ uiAgents = Snapshot(agents, order) =>
                       focusedAgentId' = order[n]
            ELSE /\ focusedAgentId' = focusedAgentId
                 /\ focusedId' = focusedId
                 /\ uiAgents' = uiAgents ]_vars

\* the key 2 has just been pressed and the second of two agents is focused
C24_Witness ==
    /\ storeCalls.op = "key"
    /\ storeCalls.id = <<"2">>
    /\ Len(order) = 2
    /\ focusedAgentId = order[2]
    /\ focusedId = order[2]

\* C25: Escape while an agent is focused sets the store's focus to null and
\* returns to the list view without exiting; only Escape with no focus exits.
C25_EscapeUnfocusesBeforeExit ==
    /\ [][ EscapePressed =>
             IF Truthy(focusedId)
             THEN /\ focusedAgentId' = NullId
                  /\ focusedId' = NullId
                  /\ RenderedView' = "list"
                  /\ ~unmounted'
             ELSE unmounted' ]_vars
    /\ [][ (unmounted' /\ ~unmounted) =>
             EscapePressed /\ ~Truthy(focusedId) ]_vars

\* Escape has just been pressed with an agent focused: the focus is null, the
\* agents are listed and the App is still mounted
C25_Witness ==
    /\ storeCalls.op = "key"
    /\ storeCalls.id = <<"escape">>
    /\ ~unmounted
    /\ focusedAgentId = NullId
    /\ Len(uiAgents) > 0
    /\ RenderedView = "list"

\* the App's focus names an agent that is not in the registry
DanglingFocus == Truthy(focusedId) /\ focusedId \notin DOMAIN agents

\* C26: removeAgent never clears focusedAgentId, and with a focus that names
\* an agent no longer in the registry the UI behaves as with focus null: the
\* list view is rendered, the digit keys select agents and Escape exits.
C26_DanglingFocusIsNoFocus ==
    /\ [][ storeCalls'.op = "removeAgent" =>
             focusedAgentId' = focusedAgentId ]_vars
    /\ [](DanglingFocus => RenderedView = "list")
    /\ [][ \A n \in 1..9 :
             (DanglingFocus /\ DigitPressed(n) /\ n <= Len(uiAgents)) =>
                focusedAgentId' = uiAgents[n].id ]_vars
    /\ [][ (DanglingFocus /\ EscapePressed) => unmounted' ]_vars

\* C27: after the teardown the periodic refresh does not leak: no new tick
\* starts, no Status Classifier call is started and the refresh applies no
\* status update to the registry, even if a tick was in progress.
C27_RefreshStopsAtTeardown ==
    [][ unmounted =>
          /\ Len(ticks') = Len(ticks)
          /\ \A t \in 1..Len(ticks') : ~CallStarted(t)
          /\ ticks' # ticks => agents' = agents ]_vars

\* generateAgentName has returned for this prompt
NameCallSettled == fnCall.fn = "generateAgentName" /\ fnCall.settled

\* the 1-based place of the last hyphen among the first 20 characters of
\* name, 0 when there is none
LastHyphenBeforeCut(name) ==
    IF \E i \in 1..20 : name[i] = "-"
    THEN CHOOSE i \in 1..20 :
            name[i] = "-" /\ \A j \in (i + 1)..20 : name[j] # "-"
    ELSE 0

\* C29: the base name never has more than 20 characters, and when cutting the
\* joined name at 20 characters leaves 1 or 2 characters after the last
\* hyphen, the base name ends just before that hyphen.
C29_TruncationDropsShortFragment ==
    NameCallSettled =>
        /\ Len(fnCall.value.baseName) <= 20
        /\ ( /\ Len(fnCall.value.joined) > 20
             /\ LastHyphenBeforeCut(fnCall.value.joined) > 1
             /\ 20 - LastHyphenBeforeCut(fnCall.value.joined) \in {1, 2} ) =>
               fnCall.value.baseName =
                  SubSeq(fnCall.value.joined, 1,
                         LastHyphenBeforeCut(fnCall.value.joined) - 1)

\* the joined name of each prompt: its first three tokens that survive
\* normalisation and filtering, joined by "-", or "agent"
ExpectedJoined ==
    {
      [prompt |-> <<"C","r","e","a","t","e"," ","R","E","A","D","M","E",
                  " ","f","i","l","e">>,
       joined |-> <<"c","r","e","a","t","e","-","r","e","a","d","m","e",
                  "-","f","i","l","e">>],
      [prompt |-> <<"F","i","x"," ","a","u","t","h"," ","b","u","g">>,
       joined |-> <<"f","i","x","-","a","u","t","h","-","b","u","g">>],
      [prompt |-> <<"U","p","d","a","t","e"," ","t","h","e"," ","u","s",
                  "e","r"," ","p","r","o","f","i","l","e"," ","s","e","t",
                  "t","i","n","g","s"," ","p","a","g","e">>,
       joined |-> <<"u","p","d","a","t","e","-","u","s","e","r","-","p",
                  "r","o","f","i","l","e">>],
      [prompt |-> <<"P","l","e","a","s","e"," ","j","u","s","t"," ","m",
                  "a","k","e"," ","t","h","e"," ","b","u","t","t","o","n",
                  " ","w","o","r","k">>,
       joined |-> <<"b","u","t","t","o","n","-","w","o","r","k">>],
      [prompt |-> <<"H","e","y"," ","c","a","n"," ","y","o","u"," ","f",
                  "i","x"," ","t","h","i","s"," ","b","u","g">>,
       joined |-> <<"f","i","x","-","b","u","g">>],
      [prompt |-> <<"C","r","e","a","t","e"," "," "," ","n","e","w"," ",
                  " "," "," ","f","i","l","e">>,
       joined |-> <<"c","r","e","a","t","e","-","n","e","w","-","f","i",
                  "l","e">>],
      [prompt |-> <<" "," ","C","r","e","a","t","e"," ","n","e","w"," ",
                  "f","i","l","e"," "," ">>,
       joined |-> <<"c","r","e","a","t","e","-","n","e","w","-","f","i",
                  "l","e">>],
      [prompt |-> <<>>,
       joined |-> <<"a","g","e","n","t">>],
      [prompt |-> <<"t","h","e"," ","a"," ","a","n"," ","t","o"," ","f",
                  "o","r">>,
       joined |-> <<"a","g","e","n","t">>],
      [prompt |-> <<"t","e","s","t">>,
       joined |-> <<"t","e","s","t">>],
      [prompt |-> <<"!","@","#","$","%","^","&","*","(",")">>,
       joined |-> <<"a","g","e","n","t">>],
      [prompt |-> <<"F","i","x"," ","b","u","g"," ","#","1","2","3"," ",
                  "i","n"," ","a","u","t","h">>,
       joined |-> <<"f","i","x","-","b","u","g","-","1","2","3">>],
      [prompt |-> <<"P","l","a","n"," ","B"," ","f","o","r"," ","x"," ",
                  "r","e","l","e","a","s","e">>,
       joined |-> <<"p","l","a","n","-","r","e","l","e","a","s","e">>],
      [prompt |-> <<"D","o","n","'","t"," ","s","t","o","p">>,
       joined |-> <<"d","o","n","-","s","t","o","p">>],
      [prompt |-> <<"F","i","x","\t","t","h","e","\n","b","u","g">>,
       joined |-> <<"f","i","x","-","b","u","g">>],
      [prompt |-> <<"F","i","x"," ","w","e","l","l","-","k","n","o","w",
                  "n"," ","b","u","g">>,
       joined |-> <<"f","i","x","-","w","e","l","l","-","k","n","o","w",
                  "n","-","b","u","g">>],
      [prompt |-> <<"R","e","f","a","c","t","o","r"," ","d","a","t","a",
                  "b","a","s","e"," ","c","o","n","n","e","c","t","i","o",
                  "n">>,
       joined |-> <<"r","e","f","a","c","t","o","r","-","d","a","t","a",
                  "b","a","s","e","-","c","o","n","n","e","c","t","i","o",
                  "n">>],
      [prompt |-> <<"R","e","f","a","c","t","o","r"," ","c","o","m","p",
                  "o","n","e","n","t"," ","l","a","y","e","r">>,
       joined |-> <<"r","e","f","a","c","t","o","r","-","c","o","m","p",
                  "o","n","e","n","t","-","l","a","y","e","r">>],
      [prompt |-> <<"I","m","p","l","e","m","e","n","t"," ","c","o","m",
                  "p","o","n","e","n","t"," ","t","e","s","t","s">>,
       joined |-> <<"i","m","p","l","e","m","e","n","t","-","c","o","m",
                  "p","o","n","e","n","t","-","t","e","s","t","s">>],
      [prompt |-> <<"R","e","f","a","c","t","o","r"," ","h","a","n","d",
                  "l","e","r"," ","l","o","g","i","c">>,
       joined |-> <<"r","e","f","a","c","t","o","r","-","h","a","n","d",
                  "l","e","r","-","l","o","g","i","c">>],
      [prompt |-> <<"I","m","p","l","e","m","e","n","t"," ","a","u","t",
                  "h","e","n","t","i","c","a","t","i","o","n"," ","m","i",
                  "d","d","l","e","w","a","r","e">>,
       joined |-> <<"i","m","p","l","e","m","e","n","t","-","a","u","t",
                  "h","e","n","t","i","c","a","t","i","o","n","-","m","i",
                  "d","d","l","e","w","a","r","e">>],
      [prompt |-> <<"S","u","p","e","r","c","a","l","i","f","r","a","g",
                  "i","l","i","s","t","i","c","e","x","p","i","a","l","i",
                  "d","o","c","i","o","u","s">>,
       joined |-> <<"s","u","p","e","r","c","a","l","i","f","r","a","g",
                  "i","l","i","s","t","i","c","e","x","p","i","a","l","i",
                  "d","o","c","i","o","u","s">>] }

ExpectedJoinedOf(prompt) == (CHOOSE e \in ExpectedJoined : e.prompt = prompt).joined

\* the prompts in which no token survives: "", "the a an to for", "!@#$%^&*()"
NoTokenPrompts ==
    { << >>,
      <<"t","h","e"," ","a"," ","a","n"," ","t","o"," ","f","o","r">>,
      <<"!","@","#","$","%","^","&","*","(",")">> }

IsNameCall(k) == nameLog[k].op = "generateAgentName"

\* the position of the last resetUsedNames before call k (0: there is none)
LastResetBefore(k) ==
    IF \E i \in 1..(k - 1) : nameLog[i].op = "resetUsedNames"
    THEN CHOOSE i \in 1..(k - 1) :
            /\ nameLog[i].op = "resetUsedNames"
            /\ \A j \in (i + 1)..(k - 1) : nameLog[j].op # "resetUsedNames"
    ELSE 0

\* the calls of generateAgentName since the last reset before call k
NameCallsBefore(k) == { i \in (LastResetBefore(k) + 1)..(k - 1) : IsNameCall(i) }

\* call k returned its base name as it is / with '-' and a suffix appended
Bare(k) == nameLog[k].name = nameLog[k].baseName
Suffixed(k) ==
    \E suffix \in Suffixes : nameLog[k].name = nameLog[k].baseName \o <<"-">> \o suffix

\* C31 as stated: after resetUsedNames, generateName returns the bare base name
\* whatever was issued before the reset; without a reset in between, the first
\* request for a base name returns it bare and every later request for the
\* same base name returns it with '-' and a suffix appended.
C31_FirstBareLaterSuffixed ==
    \A k \in 1..Len(nameLog) :
        IsNameCall(k) =>
            IF \E i \in NameCallsBefore(k) : nameLog[i].baseName = nameLog[k].baseName
            THEN Suffixed(k)
            ELSE Bare(k)

\* C31 amended: a request right after resetUsedNames returns the bare base
\* name whatever was issued before the reset; a request returns the bare base
\* name exactly when no request since the last reset RETURNED that name (as a
\* bare name or as a suffixed one), and the base name with '-' and a suffix
\* otherwise; so every request after the first for the same base name is
\* suffixed.
C31_BareUnlessIssuedSinceReset ==
    \A k \in 1..Len(nameLog) :
        IsNameCall(k) =>
            /\ IF \E i \in NameCallsBefore(k) : nameLog[i].name = nameLog[k].baseName
               THEN Suffixed(k) /\ ~Bare(k)
               ELSE Bare(k)
            /\ (k > 1 /\ nameLog[k - 1].op = "resetUsedNames") => Bare(k)
            /\ (\E i \in NameCallsBefore(k) : nameLog[i].baseName = nameLog[k].baseName)
                  => Suffixed(k)

\* a base name is issued bare, then issued suffixed, the set is reset, and the
\* same base name is issued bare again
C31_Witness ==
    \E i, j, r, k \in 1..Len(nameLog) :
        /\ i < j /\ j < r /\ r < k
        /\ IsNameCall(i) /\ IsNameCall(j) /\ IsNameCall(k)
        /\ nameLog[r].op = "resetUsedNames"
        /\ nameLog[i].baseName = nameLog[k].baseName
        /\ nameLog[j].baseName = nameLog[k].baseName
        /\ Bare(i) /\ Suffixed(j) /\ Bare(k)

\* C34: a name issued by generateName stays reserved: after the agent holding
\* it is removed with removeAgent, or the store is reset with resetStore, a
\* later generateName for that base name still returns a suffixed name; the
\* bare name is returned again only after resetUsedNames. No call of the
\* store changes the set of used names, which holds every name issued since
\* the last resetUsedNames.
C34_IssuedNameStaysReserved ==
    /\ [](\A i, k \in 1..Len(nameLog) :
            (/\ i < k
             /\ IsNameCall(i) /\ IsNameCall(k)
             /\ nameLog[i].name = nameLog[k].baseName)
            => /\ (LastResetBefore(k) < i => Suffixed(k) /\ ~Bare(k))
               /\ (Bare(k) => \E r \in (i + 1)..(k - 1) :
                                  nameLog[r].op = "resetUsedNames"))
    /\ [][(/\ Len(nameLog') = Len(nameLog) + 1
           /\ nameLog'[Len(nameLog')].op \in {"removeAgent", "resetStore", "addAgent"})
          => usedNames' = usedNames]_vars
    /\ [](\A k \in 1..Len(nameLog) :
            (IsNameCall(k) /\ LastResetBefore(Len(nameLog) + 1) < k)
                => nameLog[k].name \in usedNames)

\* a name is issued, its agent added and removed, and the same base name is
\* requested again: the name returned is suffixed
C34_Witness ==
    \E i, a, d, k \in 1..Len(nameLog) :
        /\ i < a /\ a < d /\ d < k
        /\ IsNameCall(i) /\ IsNameCall(k) /\ Bare(i)
        /\ nameLog[a].op = "addAgent" /\ nameLog[a].name = nameLog[i].name
        /\ nameLog[d].op = "removeAgent" /\ nameLog[d].name = nameLog[i].name
        /\ nameLog[k].baseName = nameLog[i].name
        /\ Suffixed(k)
        /\ nameLog[i].name \notin DOMAIN agents

\* the same with resetStore in place of removeAgent
C34_WitnessResetStore ==
    \E i, a, d, k \in 1..Len(nameLog) :
        /\ i < a /\ a < d /\ d < k
        /\ IsNameCall(i) /\ IsNameCall(k) /\ Bare(i)
        /\ nameLog[a].op = "addAgent" /\ nameLog[a].name = nameLog[i].name
        /\ nameLog[d].op = "resetStore"
        /\ nameLog[k].baseName = nameLog[i].name
        /\ Suffixed(k)
        /\ agents = << >>

\* ---- the start of the process (C32)
\* no submission was accepted, no process spawned, no tick of the refresh run
NoSessionActivity == handlers = << >> /\ procs = << >> /\ ticks = << >>

\* C32: if the credential variable is absent at startup, the process exits
\* with a nonzero code before the UI is rendered, so that no submission, spawn
\* or classifier call happens without the credential.
C32_NoCredentialNoSession ==
    ~startup.credential =>
        /\ startup.pc # "rendered"
        /\ startup.pc = "exited" => startup.exitCode # 0
        /\ NoSessionActivity

\* the same of the revision of index.tsx that checks the variable
C32_CheckedRevisionGatesStartup ==
    (startup.checks /\ ~startup.credential) =>
        /\ startup.pc # "rendered"
        /\ startup.pc = "exited" => startup.exitCode # 0
        /\ NoSessionActivity

\* the revision with the check has exited with code 1
C32_CheckedRevisionExited ==
    /\ startup.checks /\ ~startup.credential
    /\ startup.pc = "exited" /\ startup.exitCode = 1

\* ---- lastOutput against the buffer in every state (C33)
\* C33: in every reachable state, every agent's status.lastOutput is the last
\* 500 characters of its current outputBuffer (the whole buffer when it has
\* fewer), however output appends interleave with the results the periodic
\* refresh merges.
C33_LastOutputIsTailOfCurrentBuffer ==
    \A id \in DOMAIN agents :
        IsLast500Of(agents[id].status.lastOutput, agents[id].outputBuffer)

\* ---- addAgent on an id already present (C35)
\* C35: addAgent with a config.id already in the registry replaces the entry
\* with a fresh agent (state starting, empty summary, lastOutput and buffer,
\* the new handle) and kills no handle, the replaced agent's included; the
\* registry keeps its keys, in the same order, and its other agents.
C35_DuplicateAddReplacesWithoutKill ==
    [][ (StoreCalled("addAgent") /\ storeCalls'.id \in DOMAIN agents) =>
          /\ DOMAIN agents' = DOMAIN agents
          /\ order' = order
          /\ agents'[storeCalls'.id].status =
                [ id |-> storeCalls'.id, state |-> "starting",
                  summary |-> "", lastOutput |-> EmptyText ]
          /\ agents'[storeCalls'.id].outputBuffer = EmptyText
          /\ agents'[storeCalls'.id].handle = Len(procs) + 1
          /\ agents'[storeCalls'.id].handle # agents[storeCalls'.id].handle
          /\ \A p \in 1..Len(procs) : procs'[p] = procs[p]
          /\ \A k \in DOMAIN agents \ {storeCalls'.id} : agents'[k] = agents[k]
          /\ focusedAgentId' = focusedAgentId ]_vars

\* addAgent has just replaced one of two agents: the registry still has two
\* keys, and the handle of the replaced agent is no agent's handle any more
\* and was never killed
C35_Witness ==
    /\ storeCalls.op = "addAgent"
    /\ storeCalls.found
    /\ Cardinality(DOMAIN agents) = 2
    /\ \E p \in 1..Len(procs) :
          /\ procs[p].id = storeCalls.id
          /\ p # agents[storeCalls.id].handle
          /\ procs[p].kills = 0
          /\ \A k \in DOMAIN agents : agents[k].handle # p
    /\ agents[storeCalls.id].status.state = "starting"

\* ---- what each store operation leaves alone (C36)
\* the status new is the status old with the fields that partial names
\* replaced, and every other field as it was
OnlyNamedFieldsChanged(old, new, partial) ==
    /\ DOMAIN new = DOMAIN old
    /\ \A f \in DOMAIN old :
          new[f] = IF f \in DOMAIN partial THEN partial[f] ELSE old[f]

\* C36: appendOutput(id, chunk) changes only agent id's outputBuffer and
\* status.lastOutput: its state, summary, config and handle, every other
\* agent and the focus pointer stay. updateStatus(id, p) changes only the
\* status fields of agent id that p names, never its outputBuffer, config or
\* handle, nor another agent. setFocusedAgent changes only the focus pointer.
\* None of the three adds or removes a key or touches a handle.
C36_StoreOperationsFrame ==
    /\ [][ StoreCalled("appendAgentOutput") =>
             /\ DOMAIN agents' = DOMAIN agents
             /\ \A k \in DOMAIN agents :
                   /\ agents'[k].config = agents[k].config
                   /\ agents'[k].handle = agents[k].handle
                   /\ agents'[k].status.id = agents[k].status.id
                   /\ agents'[k].status.state = agents[k].status.state
                   /\ agents'[k].status.summary = agents[k].status.summary
                   /\ k # storeCalls'.id => agents'[k] = agents[k]
             /\ order' = order
             /\ procs' = procs
             /\ focusedAgentId' = focusedAgentId ]_vars
    /\ [][ StoreCalled("updateAgentStatus") =>
             /\ DOMAIN agents' = DOMAIN agents
             /\ \A k \in DOMAIN agents :
                   /\ agents'[k].config = agents[k].config
                   /\ agents'[k].handle = agents[k].handle
                   /\ agents'[k].outputBuffer = agents[k].outputBuffer
                   /\ k # storeCalls'.id => agents'[k] = agents[k]
             /\ storeCalls'.id \in DOMAIN agents =>
                   \E p \in PartialStatuses :
                       OnlyNamedFieldsChanged(agents[storeCalls'.id].status,
                                              agents'[storeCalls'.id].status, p)
             /\ order' = order
             /\ procs' = procs
             /\ focusedAgentId' = focusedAgentId ]_vars
    /\ [][ StoreCalled("setFocusedAgent") =>
             /\ focusedAgentId' = storeCalls'.id
             /\ agents' = agents
             /\ order' = order
             /\ procs' = procs ]_vars

\* appendOutput has just been called on a focused agent whose state and
\* summary had been updated, with a second agent in the registry
C36_Witness ==
    /\ storeCalls.op = "appendAgentOutput"
    /\ storeCalls.found
    /\ Cardinality(DOMAIN agents) = 2
    /\ focusedAgentId = storeCalls.id
    /\ agents[storeCalls.id].status.summary = "Building project"
    /\ agents[storeCalls.id].status.lastOutput = Rep("B", 300)
    /\ agents[storeCalls.id].outputBuffer = Rep("B", 300)

\* ---- callbacks and classifier results after removeAgent (C37)
\* the handles spawned in the step
SpawnedInStep == (Len(procs) + 1)..Len(procs')

\* C37: only addAgent inserts registry entries: a key appears only in a step
\* that spawns a process of that id and adds it, so that after removeAgent(id)
\* a later output chunk, exit event or Status Classifier result for id (a
\* classification started before the removal included) leaves id absent. A
\* handle is killed only by removeAgent of the agent that holds it, and at
\* most once.
C37_OnlyAddAgentInserts ==
    /\ [][ \A id \in DOMAIN agents' \ DOMAIN agents :
              \E p \in SpawnedInStep :
                  procs'[p].id = id /\ agents'[id].handle >= Len(procs) + 1 ]_vars
    /\ [][ \A p \in 1..Len(procs) :
              procs'[p].kills # procs[p].kills =>
                  /\ StoreCalled("removeAgent")
                  /\ storeCalls'.id \in DOMAIN agents
                  /\ storeCalls'.id \notin DOMAIN agents'
                  /\ agents[storeCalls'.id].handle = p
                  /\ procs'[p].kills = procs[p].kills + 1 ]_vars
    /\ [](\A p \in 1..Len(procs) : procs[p].kills <= 1)

\* the only agent spawned was removed while a tick awaited its
\* classification (the tick made its one call before the removal); the
\* process is still running, and the tick has ended after the removal: the
\* list it published has no agent
C37_Witness ==
    /\ Len(handlers) = 1
    /\ Len(procs) = 1
    /\ storeCalls.op = "removeAgent"
    /\ storeCalls.found
    /\ storeCalls.id = procs[1].id
    /\ procs[1].kills = 1
    /\ ~procs[1].exited
    /\ procs[1].written = 2
    /\ Len(ticks) = 1
    /\ ticks[1].pc = "done"
    /\ ticks[1].calls = 1
    /\ uiAgents = << >>
    /\ agents = << >>

\* ---- the status values in the registry (C38)
\* the states of AgentStatus (types.ts)
AgentStates == {"starting", "working", "needs_input", "done", "error"}

\* C38: in every reachable state every agent's status.state is one of
\* starting, working, needs_input, done, error and its summary is a string,
\* whatever JSON object the remote model returns to the Status Classifier.
C38_StatusStateInEnum ==
    \A id \in DOMAIN agents :
        /\ agents[id].status.state \in AgentStates
        /\ agents[id].status.summary # Undefined

\* ---- every eligible agent is eventually classified (C39)
\* the positions an agent can have in the registry's order
Positions == 1..(2 * MaxSubmits)

\* the agent at position i is in state working or starting with a non-empty
\* buffer
EligibleAt(i) == i <= Len(order) /\ Eligible(agents[order[i]])

\* tick t is in progress and awaits the classification of an agent before
\* position i / of the agent at position i
ScanBefore(t, i) == t <= Len(ticks) /\ ticks[t].pc = "await" /\ ticks[t].pos < i
PassedBy(t, i) ==
    /\ t <= Len(ticks) /\ i <= Len(order)
    /\ ticks[t].pc = "await" /\ ticks[t].pos = i /\ ticks[t].id = order[i]

\* the timer can fire no more (the bounds of the model are reached) and no
\* tick in progress has the agent at position i still ahead
RefreshOver(i) ==
    /\ Len(ticks) >= MaxTicks \/ Events >= MaxEvents
    /\ \A t \in 1..MaxTicks : ~ScanBefore(t, i)

\* C39: with the refresh timer firing fairly and every classifier call
\* settling, an agent that stays in state working or starting with a
\* non-empty buffer is eventually passed to the Status Classifier: a tick in
\* progress reaches it after the calls for the agents before it have returned
\* or thrown (when such a call settles the tick neither ends nor goes past an
\* agent that is eligible), and a new tick starts while the timer can fire,
\* whether or not another tick is still awaiting.
C39_EligibleAgentEventuallyClassified ==
    /\ [][ \A t \in 1..Len(ticks) : \A i \in 1..Len(order) :
             ( /\ ScanBefore(t, i)
               /\ ticks'[t] # ticks[t]
               /\ Eligible(agents'[order[i]]) )
             => ticks'[t].pc = "await" /\ ticks'[t].pos <= i ]_vars
    /\ \A i \in Positions :
          EligibleAt(i) ~>
              \/ \E t \in 1..MaxTicks : PassedBy(t, i)
              \/ ~EligibleAt(i)
              \/ RefreshOver(i)
    /\ \A i \in Positions : \A t \in 1..MaxTicks :
          (ScanBefore(t, i) /\ EligibleAt(i)) ~> (PassedBy(t, i) \/ ~EligibleAt(i))

\* the second of two agents, still eligible, is passed to the classifier
\* after the call of the same tick for the first agent threw
C39_Witness ==
    /\ PassedBy(1, 2)
    /\ ticks[1].lastThrew
    /\ ticks[1].calls = 2
    /\ EligibleAt(2)

\* ------------------------------------------------------------- fairness
\* a pending call of cleanInput settles: the remote call returns or fails
CleanInputSettles ==
    \E h \in 1..Len(handlers) :
        \/ CleanInputThrows(h)
        \/ CleanInputClarifies(h)
        \/ CleanInputReturnsTasks(h)

FairSpec == Spec /\ WF_vars(CleanInputSettles)

\* a pending call of detectStatus settles: the remote call returns or fails
\* (the client gives up after its timeout), however long it takes
DetectStatusSettles ==
    \E t \in 1..Len(ticks) : DetectStatusReturns(t) \/ DetectStatusThrows(t)

\* setInterval keeps firing, and every pending classification settles
FairRefreshSpec == Spec /\ WF_vars(TimerFires) /\ WF_vars(DetectStatusSettles)

====
